---- MODULE Spec2Model ----
(***************************************************************************)
(* Model of the mood-to-recommendation pipeline: the static genre mapper   *)
(* (app/ai/genre_mapper.py), the remote classifier                         *)
(* (app/ai/gemini_emotion.py), the catalog client (app/clients/tmdb.py)    *)
(* and the orchestrator with its TTL cache                                 *)
(* (app/services/recommendation_service.py).                               *)
(*                                                                         *)
(* Python strings are sequences of one-character strings, so that lower(), *)
(* strip(), indexing and concatenation are computed, not assumed.  An      *)
(* Optional value is a sequence of length at most one: <<>> is None and    *)
(* <<x>> is the value x.                                                   *)
(***************************************************************************)
EXTENDS Integers, Sequences, FiniteSets, TLC

\* ------------------------------------------------------------------ strings

None == <<>>

Some(x) == <<x>>

\* str.lower() on one character (ASCII letters)
LowerOf ==
    ("A" :> "a") @@ ("B" :> "b") @@ ("C" :> "c") @@ ("D" :> "d") @@ ("E" :> "e") @@
    ("F" :> "f") @@ ("G" :> "g") @@ ("H" :> "h") @@ ("I" :> "i") @@ ("J" :> "j") @@
    ("K" :> "k") @@ ("L" :> "l") @@ ("M" :> "m") @@ ("N" :> "n") @@ ("O" :> "o") @@
    ("P" :> "p") @@ ("Q" :> "q") @@ ("R" :> "r") @@ ("S" :> "s") @@ ("T" :> "t") @@
    ("U" :> "u") @@ ("V" :> "v") @@ ("W" :> "w") @@ ("X" :> "x") @@ ("Y" :> "y") @@
    ("Z" :> "z")

LowerChar(c) == IF c \in DOMAIN LowerOf THEN LowerOf[c] ELSE c

\* str.lower()
Lower(s) == [i \in 1..Len(s) |-> LowerChar(s[i])]

IsSpace(c) == c = " "

RECURSIVE LStrip(_)
LStrip(s) == IF s # <<>> /\ IsSpace(Head(s)) THEN LStrip(Tail(s)) ELSE s

RECURSIVE RStrip(_)
RStrip(s) ==
    IF s # <<>> /\ IsSpace(s[Len(s)]) THEN RStrip(SubSeq(s, 1, Len(s) - 1)) ELSE s

\* str.strip()
Strip(s) == RStrip(LStrip(s))

\* ord() of the characters the model uses
Ord ==
    ("a" :> 97) @@ ("b" :> 98) @@ ("c" :> 99) @@ ("d" :> 100) @@ ("e" :> 101) @@ ("f" :> 102) @@
    ("g" :> 103) @@ ("h" :> 104) @@ ("i" :> 105) @@ ("j" :> 106) @@ ("k" :> 107) @@ ("l" :> 108) @@
    ("m" :> 109) @@ ("n" :> 110) @@ ("o" :> 111) @@ ("p" :> 112) @@ ("q" :> 113) @@ ("r" :> 114) @@
    ("s" :> 115) @@ ("t" :> 116) @@ ("u" :> 117) @@ ("v" :> 118) @@ ("w" :> 119) @@ ("x" :> 120) @@
    ("y" :> 121) @@ ("z" :> 122) @@ ("A" :> 65) @@ ("B" :> 66) @@ ("C" :> 67) @@ ("D" :> 68) @@
    ("E" :> 69) @@ ("F" :> 70) @@ ("G" :> 71) @@ ("H" :> 72) @@ ("I" :> 73) @@ ("J" :> 74) @@
    ("K" :> 75) @@ ("L" :> 76) @@ ("M" :> 77) @@ ("N" :> 78) @@ ("O" :> 79) @@ ("P" :> 80) @@
    ("Q" :> 81) @@ ("R" :> 82) @@ ("S" :> 83) @@ ("T" :> 84) @@ ("U" :> 85) @@ ("V" :> 86) @@
    ("W" :> 87) @@ ("X" :> 88) @@ ("Y" :> 89) @@ ("Z" :> 90) @@ (" " :> 32) @@ ("'" :> 39)

\* s[:n] on a list or a string
Take(s, n) == SubSeq(s, 1, IF n < Len(s) THEN n ELSE Len(s))

\* whether sub occurs in s as a contiguous run of characters ("sub in s")
Contains(s, sub) ==
    \E i \in 0..(Len(s) - Len(sub)) : SubSeq(s, i + 1, i + Len(sub)) = sub

\* ------------------------------------------------------- genre_mapper.py

TMDB_GENRES ==
    ("Action" :> 28) @@ ("Adventure" :> 12) @@ ("Animation" :> 16) @@ ("Comedy" :> 35) @@
    ("Crime" :> 80) @@ ("Documentary" :> 99) @@ ("Drama" :> 18) @@ ("Family" :> 10751) @@
    ("Fantasy" :> 14) @@ ("History" :> 36) @@ ("Horror" :> 27) @@ ("Music" :> 10402) @@
    ("Mystery" :> 9648) @@ ("Romance" :> 10749) @@ ("Science Fiction" :> 878) @@ ("TV Movie" :> 10770) @@
    ("Thriller" :> 53) @@ ("War" :> 10752) @@ ("Western" :> 37)

FALLBACK_MAP ==
    (<<"f", "e", "l", "i", "z">> :> <<"Comedy", "Romance">>) @@
    (<<"h", "a", "p", "p", "y">> :> <<"Comedy", "Romance">>) @@
    (<<"t", "r", "i", "s", "t", "e">> :> <<"Drama">>) @@
    (<<"s", "a", "d">> :> <<"Drama">>) @@
    (<<"a", "n", "s", "i", "o", "s", "o">> :> <<"Mystery", "Thriller">>) @@
    (<<"a", "n", "x", "i", "o", "u", "s">> :> <<"Mystery", "Thriller">>) @@
    (<<"f", "o", "c", "a", "d", "o">> :> <<"Documentary">>) @@
    (<<"f", "o", "c", "u", "s", "e", "d">> :> <<"Documentary">>) @@
    (<<"b", "r", "a", "v", "o">> :> <<"Action">>) @@
    (<<"a", "n", "g", "r", "y">> :> <<"Action">>)

\* the top_k both call sites pass (recommendation_service.py:30,33,35,38,40)
TopK == 2

\* a mutant of fallback_genres_for: the table is read with the mood as given
fallback_genres_for_case_sensitive(mood, top_k) ==
    IF mood = <<>> THEN <<>>
    ELSE LET names == Take(IF mood \in DOMAIN FALLBACK_MAP
                           THEN FALLBACK_MAP[mood] ELSE <<"Comedy">>, top_k)
         IN  [i \in 1..Len(names) |-> <<names[i], TMDB_GENRES[names[i]]>>]

\* a mutant of fallback_genres_for: an unknown mood has no genre
fallback_genres_for_no_default(mood, top_k) ==
    IF mood = <<>> THEN <<>>
    ELSE LET lower == Lower(mood)
             names == Take(IF lower \in DOMAIN FALLBACK_MAP
                           THEN FALLBACK_MAP[lower] ELSE <<>>, top_k)
         IN  [i \in 1..Len(names) |-> <<names[i], TMDB_GENRES[names[i]]>>]

\* fallback_genres_for(mood, top_k): the static mapping
fallback_genres_for(mood, top_k) ==
    IF mood = <<>> THEN <<>>
    ELSE LET lower == Lower(mood)
             names == Take(IF lower \in DOMAIN FALLBACK_MAP
                           THEN FALLBACK_MAP[lower] ELSE <<"Comedy">>, top_k)
         IN  [i \in 1..Len(names) |-> <<names[i], TMDB_GENRES[names[i]]>>]

\* map_mood_to_genres(mood, top_k) once the pipeline is loaded: the pairs of
\* res["labels"], res["scores"] sorted by score, descending (sorted() is
\* stable), cut to top_k and paired with the vocabulary ids.  res is a
\* sequence of <<label, score>>.
RECURSIVE SortedDesc(_)
SortedDesc(pairs) ==
    IF pairs = <<>> THEN <<>>
    ELSE LET best == CHOOSE i \in 1..Len(pairs) :
                        /\ \A j \in 1..Len(pairs) : pairs[j][2] <= pairs[i][2]
                        /\ \A j \in 1..(i - 1) : pairs[j][2] < pairs[i][2]
             rest == [j \in 1..(Len(pairs) - 1) |->
                         IF j < best THEN pairs[j] ELSE pairs[j + 1]]
         IN  <<pairs[best]>> \o SortedDesc(rest)

zero_shot_genres(res, top_k) ==
    LET pairs == Take(SortedDesc(res), top_k)
    IN  [i \in 1..Len(pairs) |-> <<pairs[i][1], TMDB_GENRES[pairs[i][1]]>>]

\* ------------------------------------------------------ gemini_emotion.py

gemini_pro == <<"g", "e", "m", "i", "n", "i", "-", "p", "r", "o">>

gemini_20_flash == <<"g", "e", "m", "i", "n", "i", "-", "2", ".", "0", "-", "f", "l", "a", "s", "h">>

gemini_20_flash_001 == <<"g", "e", "m", "i", "n", "i", "-", "2", ".", "0", "-", "f", "l", "a", "s", "h", "-", "0", "0", "1">>

gemini_20_flash_lite == <<"g", "e", "m", "i", "n", "i", "-", "2", ".", "0", "-", "f", "l", "a", "s", "h", "-", "l", "i", "t", "e">>

gemini_15_flash == <<"g", "e", "m", "i", "n", "i", "-", "1", ".", "5", "-", "f", "l", "a", "s", "h">>

gemini_15_flash_latest == <<"g", "e", "m", "i", "n", "i", "-", "1", ".", "5", "-", "f", "l", "a", "s", "h", "-", "l", "a", "t", "e", "s", "t">>

gemini_exp_flash == <<"g", "e", "m", "i", "n", "i", "-", "e", "x", "p", "-", "f", "l", "a", "s", "h">>

gemini_ultra == <<"g", "e", "m", "i", "n", "i", "-", "u", "l", "t", "r", "a">>

text_bison == <<"t", "e", "x", "t", "-", "b", "i", "s", "o", "n">>

StartsWith(s, prefix) ==
    Len(prefix) <= Len(s) /\ SubSeq(s, 1, Len(prefix)) = prefix

\* _choose_fallback_model: the preference list
preference ==
    << gemini_20_flash, gemini_20_flash_001, gemini_20_flash_lite,
       gemini_15_flash, gemini_15_flash_latest, gemini_pro >>

\* the first element of the list xs whose test holds, as an Optional;
\* tests[i] is the test of xs[i]
FirstWhere(xs, tests) ==
    IF \E i \in 1..Len(xs) : tests[i]
    THEN Some(xs[CHOOSE i \in 1..Len(xs) : tests[i] /\ \A j \in 1..(i - 1) : ~tests[j]])
    ELSE None

\* a mutant of choose_fallback_model: the last resort is any other model
choose_fallback_model_any(available, model_name) ==
    LET InList(m) == \E i \in 1..Len(available) : available[i] = m
        Pref(p) == InList(p) /\ p # model_name
        Flash(m) == /\ StartsWith(m, <<"g", "e", "m", "i", "n", "i", "-">>)
                    /\ Contains(m, <<"f", "l", "a", "s", "h">>)
                    /\ m # model_name
        byPref == FirstWhere(preference, [i \in 1..Len(preference) |-> Pref(preference[i])])
        byFlash == FirstWhere(available, [i \in 1..Len(available) |-> Flash(available[i])])
    IN  IF byPref # None THEN byPref
        ELSE IF byFlash # None THEN byFlash
        ELSE FirstWhere(available, [i \in 1..Len(available) |-> available[i] # model_name])

\* _choose_fallback_model(), reading _available_models and MODEL_NAME
choose_fallback_model(available, model_name) ==
    LET InList(m) == \E i \in 1..Len(available) : available[i] = m
        Pref(p) == InList(p) /\ p # model_name
        Flash(m) == /\ StartsWith(m, <<"g", "e", "m", "i", "n", "i", "-">>)
                    /\ Contains(m, <<"f", "l", "a", "s", "h">>)
                    /\ m # model_name
        AnyGemini(m) == StartsWith(m, <<"g", "e", "m", "i", "n", "i", "-">>) /\ m # model_name
        byPref == FirstWhere(preference, [i \in 1..Len(preference) |-> Pref(preference[i])])
        byFlash == FirstWhere(available, [i \in 1..Len(available) |-> Flash(available[i])])
    IN  IF byPref # None THEN byPref
        ELSE IF byFlash # None THEN byFlash
        ELSE FirstWhere(available, [i \in 1..Len(available) |-> AnyGemini(available[i])])

\* get_api_version() and the same test on the fallback target
api_version(name) ==
    IF Contains(Lower(name), <<"1", ".", "5">>) \/ Contains(Lower(name), <<"2", ".", "0">>)
    THEN "v1beta" ELSE "v1"

\* The tail of map_via_gemini_api: the parsed text of the first candidate.
\* A body is [shape |-> "list", names |-> seq] for a JSON array,
\* "notlist" for any other JSON value, "badjson" for text json.loads
\* rejects and "nocandidates" for a body without usable candidates.
\* The result is [raised |-> BOOLEAN, top |-> pairs].
valid_genres(names) == SelectSeq(names, LAMBDA g : g \in DOMAIN TMDB_GENRES)

\* a mutant of parse_gemini_body: an array without vocabulary names yields
\* an empty result instead of an error
parse_gemini_body_allow_empty(body, top_k) ==
    IF body.shape # "list" THEN [raised |-> TRUE, top |-> <<>>]
    ELSE LET selected == Take(valid_genres(body.names), top_k)
         IN  [raised |-> FALSE,
              top |-> [i \in 1..Len(selected) |->
                          <<selected[i], TMDB_GENRES[selected[i]]>>]]

parse_gemini_body(body, top_k) ==
    IF body.shape # "list" THEN [raised |-> TRUE, top |-> <<>>]
    ELSE IF valid_genres(body.names) = <<>> THEN [raised |-> TRUE, top |-> <<>>]
    ELSE LET selected == Take(valid_genres(body.names), top_k)
         IN  [raised |-> FALSE,
              top |-> [i \in 1..Len(selected) |->
                          <<selected[i], TMDB_GENRES[selected[i]]>>]]

\* map_via_gemini_api(mood, top_k) as a function of what the network
\* answers: reply to the first generateContent request, the model list
\* _list_models finds, reply to the request sent to the substitute.
\* A reply is [kind |-> "error"] (transport error or undecodable body) or
\* [kind |-> "http", status, not_found, body].  The result is
\* [raised, top, model_name, sent, answers, listed, no_valid] where
\* model_name is MODEL_NAME after the call, sent lists the models the
\* generateContent requests were addressed to, answers how each of them
\* was answered, listed is what _list_models found when it was called, and
\* no_valid says that the text parsed was a JSON array without any name of
\* the vocabulary.
answer_of(reply) ==
    IF reply.kind = "error" THEN "error"
    ELSE IF reply.status < 300 THEN "ok"
    ELSE IF reply.status = 404 /\ reply.not_found THEN "notfound"
    ELSE "status"

\* a mutant of fallback_answered: the substitute is not remembered
fallback_answered_forgets(model_name, target) == model_name

\* line 190: the substitute answered, MODEL_NAME = target
fallback_answered(model_name, target) == target

\* a mutant of fallback_failed: the substitute is kept although it failed
fallback_failed_keeps_target(model_name, target) == target

\* lines 193-196: the request to the substitute failed, MODEL_NAME stays
fallback_failed(model_name, target) == model_name

map_via_gemini_api(token, model_name, reply1, available, reply2, top_k) ==
    LET answers(sent) ==
            [i \in 1..Len(sent) |-> answer_of(IF i = 1 THEN reply1 ELSE reply2)]
        listed == IF token /\ answer_of(reply1) = "notfound" THEN Some(available) ELSE None
        fail(sent, name) ==
            [raised |-> TRUE, top |-> <<>>, model_name |-> name, sent |-> sent,
             answers |-> answers(sent), listed |-> listed, no_valid |-> FALSE]
        done(sent, name, body) ==
            LET p == parse_gemini_body(body, top_k)
            IN  [raised |-> p.raised, top |-> p.top, model_name |-> name, sent |-> sent,
                 answers |-> answers(sent), listed |-> listed,
                 no_valid |-> body.shape = "list" /\ valid_genres(body.names) = <<>>]
        target == choose_fallback_model(available, model_name)
    IN  IF ~token THEN fail(<<>>, model_name)
        ELSE IF reply1.kind = "error" THEN fail(<<model_name>>, model_name)
        ELSE IF reply1.status >= 300
        THEN IF reply1.status = 404 /\ reply1.not_found
             THEN IF target = None THEN fail(<<model_name>>, model_name)
                  ELSE IF reply2.kind = "error"
                  THEN fail(<<model_name, target[1]>>, fallback_failed(model_name, target[1]))
                  ELSE IF reply2.status < 300
                  THEN done(<<model_name, target[1]>>,
                            fallback_answered(model_name, target[1]), reply2.body)
                  ELSE fail(<<model_name, target[1]>>, fallback_failed(model_name, target[1]))
             ELSE fail(<<model_name>>, model_name)
        ELSE done(<<model_name>>, model_name, reply1.body)

\* ------------------------------------------------------------------ tmdb.py

\* int(sha256(seed).hexdigest()[:8], 16) for the seeds of the model, as the
\* two 16-bit halves <<high, low>> of the 32-bit value
Sha256Prefix ==
    (<<>> :> <<58288, 50242>>) @@
    (<<"s", "a", "d">> :> <<17865, 42593>>) @@
    (<<"f", "e", "l", "i", "z">> :> <<40731, 54652>>) @@
    (<<"z", "e", "n">> :> <<37604, 44237>>) @@
    (<<"h", "a", "p", "p", "y">> :> <<18591, 29084>>) @@
    (<<"t", "r", "i", "s", "t", "e">> :> <<41897, 44408>>) @@
    (<<"a">> :> <<51863, 33042>>) @@
    (<<"b">> :> <<15907, 59414>>) @@
    (<<"b", "r", "a", "v", "o">> :> <<61764, 42640>>) @@
    (<<"a", "n", "g", "r", "y">> :> <<2710, 61846>>)

\* _pick_page(seed, max_pages): (value mod max_pages) + 1, the value taken
\* from its halves as high * 65536 + low
pick_page(seed, max_pages) ==
    LET h == Sha256Prefix[seed]
    IN  ((((h[1] % max_pages) * (65536 % max_pages)) + (h[2] % max_pages)) % max_pages) + 1

\* _pick_sort(seed): seed[0] raises IndexError on the empty string
pick_sort(seed) ==
    IF seed = <<>> THEN [raised |-> TRUE, sort_by |-> "IndexError"]
    ELSE [raised |-> FALSE,
          sort_by |-> IF Ord[seed[1]] % 2 = 0 THEN "vote_average.desc"
                      ELSE "popularity.desc"]

Desconhecido == <<"D", "e", "s", "c", "o", "n", "h", "e", "c", "i", "d", "o">>

\* One upstream result m = [title, name, vote_average, id] to a hit
\* {"title", "score", "id"}.  vote_average is an Optional number in tenths
\* and score is in hundredths, so vote / 10.0 keeps the same integer.
Max(a, b) == IF a > b THEN a ELSE b

Min(a, b) == IF a < b THEN a ELSE b

\* a mutant of hit_of: the score is not clamped
hit_of_unclamped(m) ==
    LET title == IF m.title # <<>> THEN m.title
                 ELSE IF m.name # <<>> THEN m.name ELSE Desconhecido
        vote == IF m.vote_average = None THEN 0 ELSE m.vote_average[1]
    IN  [title |-> title, score |-> vote, id |-> m.id]

hit_of(m) ==
    LET title == IF m.title # <<>> THEN m.title
                 ELSE IF m.name # <<>> THEN m.name ELSE Desconhecido
        vote == IF m.vote_average = None THEN 0 ELSE m.vote_average[1]
        score == Max(0, Min(100, vote))
    IN  [title |-> title, score |-> score, id |-> m.id]

\* the loop of search_by_mood / discover_by_genres over results[:10]
hits_of(results) == LET r == Take(results, 10) IN [i \in 1..Len(r) |-> hit_of(r[i])]

\* get_watch_providers after a successful reply: data["results"] maps a
\* region to an entry, an entry maps a section to its provider names
tmdb_region == "BR"

sections == <<"flatrate", "rent", "buy", "ads", "free">>

RECURSIVE Flatten(_, _)
Flatten(entry, secs) ==
    IF secs = <<>> THEN <<>>
    ELSE (IF Head(secs) \in DOMAIN entry THEN entry[Head(secs)] ELSE <<>>)
         \o Flatten(entry, Tail(secs))

\* a mutant of Dedup: every occurrence is kept
Dedup_keep_all(flat) == [i \in 1..Len(flat) |-> Some(flat[i])]

\* de-duplicate preserving order
Dedup(flat) ==
    SelectSeq([i \in 1..Len(flat) |->
                  IF \E j \in 1..(i - 1) : flat[j] = flat[i] THEN None ELSE Some(flat[i])],
              LAMBDA o : o # None)

watch_providers_of(results) ==
    LET NonEmpty(reg) == reg \in DOMAIN results /\ DOMAIN results[reg] # {}
        entry == IF NonEmpty(tmdb_region) THEN results[tmdb_region]
                 ELSE IF NonEmpty("US") THEN results["US"]
                 ELSE <<>>
        ordered == Dedup(Flatten(entry, sections))
    IN  Take([i \in 1..Len(ordered) |-> ordered[i][1]], 8)

\* ------------------------------------------------- cachetools.TTLCache
\* cache = TTLCache(maxsize, ttl) (recommendation_service.py:10).  The
\* cache is the sequence of its entries [key, value, expires] in the
\* order of its links, least recently used first.  The timer is `now`.

\* ttl=600 (seconds)
ttl == 600

\* maxsize: 512 in the source, scaled down so that the model fills it
maxsize == 2

HasKey(c, key) == \E i \in 1..Len(c) : c[i].key = key

IndexOf(c, key) == CHOOSE i \in 1..Len(c) : c[i].key = key

Without(c, key) == SelectSeq(c, LAMBDA e : e.key # key)

\* TTLCache.__contains__: the link is present and not expired; no reordering
cache_contains(c, key, time) ==
    \E i \in 1..Len(c) : c[i].key = key /\ time < c[i].expires

\* a mutant of cache_getitem: a read leaves the order of the links alone
cache_getitem_unordered(c, key, time) ==
    IF ~HasKey(c, key) THEN [raised |-> TRUE, value |-> <<>>, cache |-> c]
    ELSE LET e == c[IndexOf(c, key)]
         IN  IF ~(time < e.expires)
             THEN [raised |-> TRUE, value |-> <<>>, cache |-> c]
             ELSE [raised |-> FALSE, value |-> e.value, cache |-> c]

\* a mutant of cache_getitem: a read renews the entry's lifetime
cache_getitem_renewing(c, key, time) ==
    IF ~HasKey(c, key) THEN [raised |-> TRUE, value |-> <<>>, cache |-> c]
    ELSE LET e == c[IndexOf(c, key)]
         IN  IF ~(time < e.expires)
             THEN [raised |-> TRUE, value |-> <<>>, cache |-> Append(Without(c, key), e)]
             ELSE [raised |-> FALSE, value |-> e.value,
                   cache |-> Append(Without(c, key), [e EXCEPT !.expires = time + ttl])]

\* TTLCache.__getitem__: __getlink moves the link to the end, then an
\* expired or missing key goes to __missing__, which raises KeyError.
\* The result is [raised, value, cache].
cache_getitem(c, key, time) ==
    IF ~HasKey(c, key) THEN [raised |-> TRUE, value |-> <<>>, cache |-> c]
    ELSE LET e == c[IndexOf(c, key)]
             moved == Append(Without(c, key), e)
         IN  IF ~(time < e.expires)
             THEN [raised |-> TRUE, value |-> <<>>, cache |-> moved]
             ELSE [raised |-> FALSE, value |-> e.value, cache |-> moved]

\* TTLCache.expire(time): drops every entry with not (time < expires)
expire(c, time) == SelectSeq(c, LAMBDA e : time < e.expires)

\* Cache.__setitem__'s loop: popitem() while there is no room for one more
RECURSIVE popitems(_)
popitems(c) == IF Len(c) + 1 > maxsize /\ c # <<>> THEN popitems(Tail(c)) ELSE c

\* a mutant of cache_setitem: the value of a key already linked is kept
cache_setitem_keep_first(c, key, value, time) ==
    LET live == expire(c, time)
        room == IF HasKey(live, key) THEN Without(live, key) ELSE popitems(live)
        kept == IF HasKey(live, key) THEN live[IndexOf(live, key)].value ELSE value
    IN  Append(room, [key |-> key, value |-> kept, expires |-> time + ttl])

\* TTLCache.__setitem__: expire, make room for a new key by dropping the
\* least recently used entries, then (re)link the key at the end with
\* expires = time + ttl
cache_setitem(c, key, value, time) ==
    LET live == expire(c, time)
        room == IF HasKey(live, key) THEN Without(live, key) ELSE popitems(live)
    IN  Append(room, [key |-> key, value |-> value, expires |-> time + ttl])

\* the value stored under key, as an Optional (expired or not)
ValueOf(c, key) == IF HasKey(c, key) THEN Some(c[IndexOf(c, key)].value) ELSE None

\* ------------------------------------------- recommendation_service.py

\* seed = mood.lower().strip()
seed_of(mood) == Strip(Lower(mood))

\* a mutant of key_of: the key is built from the mood as given
key_of_raw(mood) == <<"r", "e", "c", "s", ":">> \o mood

\* key = f"recs:{seed}"
key_of(mood) == <<"r", "e", "c", "s", ":">> \o seed_of(mood)

\* a mutant of after_lookup: the cache is not consulted
after_lookup_ignoring_cache(present) == "ClassifyGenres"

\* if key in cache: return cache[key]
after_lookup(present) == IF present THEN "Read" ELSE "ClassifyGenres"

\* a mutant of on_remote_error: no static mapping after a failed remote call
on_remote_error_empty(mood) == <<>>

\* except Exception: top = genre_mapper.fallback_genres_for(mood, top_k=2)
on_remote_error(mood) == fallback_genres_for(mood, TopK)

\* a mutant of genre_ids_of: the default is no id of the vocabulary
genre_ids_of_default_zero(top) ==
    IF top = <<>> THEN <<0>> ELSE [i \in 1..Len(top) |-> top[i][2]]

\* a mutant of genre_ids_of: without the default
genre_ids_of_no_default(top) == [i \in 1..Len(top) |-> top[i][2]]

\* genre_ids = [gid for _, gid in (top or [])] or [35]
genre_ids_of(top) ==
    IF top = <<>> THEN <<35>> ELSE [i \in 1..Len(top) |-> top[i][2]]

\* a mutant of catalog_recommendation: the tag is "catalog"
catalog_recommendation_tagged_catalog(row, providers) ==
    [title |-> row.title, source |-> "catalog", score |-> row.score, providers |-> providers]

\* a mutant of catalog_recommendation: the provider list is left out
catalog_recommendation_no_providers(row, providers) ==
    [title |-> row.title, source |-> "TMDB", score |-> row.score, providers |-> None]

\* Recommendation(title=str(r["title"]), source="TMDB", score=..., providers=...)
catalog_recommendation(row, providers) ==
    [title |-> row.title, source |-> "TMDB", score |-> row.score, providers |-> providers]

\* a mutant of fallback_recommendation: the score left to its default, 0.7
fallback_recommendation_default_score(mood) ==
    [title |-> <<"F", "a", "l", "l", "b", "a", "c", "k", " ", "p", "i", "c", "k", " ", "f", "o", "r", " ", "'">> \o mood \o <<"'">>,
     source |-> "fallback", score |-> 70, providers |-> None]

\* Recommendation(title=f"Fallback pick for '{mood}'", source="fallback", score=0.5)
fallback_recommendation(mood) ==
    [title |-> <<"F", "a", "l", "l", "b", "a", "c", "k", " ", "p", "i", "c", "k", " ", "f", "o", "r", " ", "'">> \o mood \o <<"'">>,
     source |-> "fallback", score |-> 50, providers |-> None]

\* a mutant of after_discover: the search runs whatever discovery found
after_discover_always_search(rows) == "SearchCatalog"

\* if not rows: rows = await tmdb.search_by_mood(mood)
after_discover(rows) == IF rows = <<>> THEN "SearchCatalog" ELSE "EnrichProviders"

\* stop_after_attempt(3)
stop_after_attempt == 3

\* Lines 28-40 of recommend_by_mood: the classification by settings.ai_mode,
\* as a function of what the classifiers answer.  load is whether loading
\* the zero-shot pipeline succeeds when is_available() tries it, zres is
\* the pipeline's answer ([raised, res]); the other inputs are those of
\* map_via_gemini_api.  escaped says that an exception left the block.
resolve_genres(st, mood, model_name, zs_loaded, reply1, available, reply2, load, zres) ==
    LET static == fallback_genres_for(mood, TopK)
        base == [escaped |-> FALSE, top |-> static, model_name |-> model_name,
                 zs |-> zs_loaded, remote_called |-> FALSE, remote_raised |-> FALSE,
                 no_valid |-> FALSE, sent |-> <<>>, answers |-> <<>>, listed |-> None,
                 loads |-> 0]
    IN  IF st.ai_mode = "off" THEN base
        ELSE IF st.ai_mode = "remote"
        THEN LET g == map_via_gemini_api(st.gemini_api_key, model_name, reply1,
                                         available, reply2, TopK)
             IN  [base EXCEPT !.top = IF g.raised THEN on_remote_error(mood) ELSE g.top,
                              !.model_name = g.model_name,
                              !.remote_called = TRUE,
                              !.remote_raised = g.raised,
                              !.no_valid = g.no_valid,
                              !.sent = g.sent,
                              !.answers = g.answers,
                              !.listed = g.listed]
        ELSE \* "local"
             IF zs_loaded \/ load
             THEN IF zres.raised
                  THEN [base EXCEPT !.escaped = TRUE, !.top = <<>>, !.zs = TRUE,
                                    !.loads = IF zs_loaded THEN 0 ELSE 1]
                  ELSE [base EXCEPT !.top = zero_shot_genres(zres.res, TopK), !.zs = TRUE,
                                    !.loads = IF zs_loaded THEN 0 ELSE 1]
             ELSE [base EXCEPT !.loads = 1]

\* --------------------------------------------------------------- the model

\* the requests that may be in flight at once
Requests == {"r1", "r2"}

NoOne == "none"

\* how many calls of recommend_by_mood a behaviour makes: under Spec (any
\* configuration, any mood, one request at a time, the clock jumping to
\* MaxTime) and under SpecRepeat (one configuration, two spellings of one
\* key and two other keys, one request at a time, the clock in TickSteps)
MaxCalls == 2

MaxRepeatCalls == 4

\* the clock advances in steps of TickStep seconds up to MaxTime
TickStep == 300

MaxTime == 600

\* the moods a call may pass
Moods ==
    { <<>>,
      <<"s", "a", "d">>,
      <<"S", "a", "d", " ">>,
      <<"f", "e", "l", "i", "z">> }

\* the configurations the process may start with
Settings ==
    { st \in [ai_mode : {"off", "remote", "local"},
              gemini_api_key : BOOLEAN,
              tmdb_include_providers : BOOLEAN] :
        st.ai_mode # "remote" => st.gemini_api_key }

\* what the catalog may hold
M1 == [title |-> <<"A">>, name |-> <<>>, vote_average |-> Some(82), id |-> Some(1)]

M2 == [title |-> <<>>, name |-> <<"B">>, vote_average |-> Some(120), id |-> None]

M3 == [title |-> <<"C">>, name |-> <<>>, vote_average |-> None, id |-> Some(3)]

\* A reply of the catalog to one request: a transport error, or a status
\* with the payload's results
CatalogError == [kind |-> "error", status |-> 0, results |-> <<>>]

DiscoverReplies ==
    { CatalogError,
      [kind |-> "http", status |-> 500, results |-> <<>>],
      [kind |-> "http", status |-> 200, results |-> <<>>],
      [kind |-> "http", status |-> 200, results |-> <<M1, M2>>] }

\* the discovery replies SpecEnrich draws from: two of the three hits
\* have an id
EnrichDiscoverReplies ==
    DiscoverReplies \cup {[kind |-> "http", status |-> 200, results |-> <<M1, M2, M3>>]}

SearchReplies ==
    { CatalogError,
      [kind |-> "http", status |-> 200, results |-> <<>>],
      [kind |-> "http", status |-> 200, results |-> <<M2>>] }

ProviderReplies ==
    { CatalogError,
      [kind |-> "http", status |-> 200,
       results |-> ("BR" :> (("flatrate" :> <<"Netflix", "Prime Video">>) @@
                             ("rent" :> <<"Netflix">>)))],
      [kind |-> "http", status |-> 200,
       results |-> ("US" :> ("buy" :> <<"Apple TV">>))] }

\* what the remote classifier may answer
GeminiBodies ==
    { [shape |-> "list", names |-> <<"Drama", "Horror", "Comedy">>],
      [shape |-> "list", names |-> <<"Sci-Fi", "Thriller">>],
      [shape |-> "list", names |-> <<"Sci-Fi">>],
      [shape |-> "list", names |-> <<>>],
      [shape |-> "notlist", names |-> <<>>],
      [shape |-> "badjson", names |-> <<>>] }

NoBody == [shape |-> "nocandidates", names |-> <<>>]

GeminiReplies ==
    { [kind |-> "error", status |-> 0, not_found |-> FALSE, body |-> NoBody],
      [kind |-> "http", status |-> 500, not_found |-> FALSE, body |-> NoBody],
      [kind |-> "http", status |-> 404, not_found |-> TRUE, body |-> NoBody] }
    \cup { [kind |-> "http", status |-> 200, not_found |-> FALSE, body |-> b] :
             b \in GeminiBodies }

\* what _list_models may find (sorted, as sorted(set(names)) leaves it)
ModelLists ==
    { << gemini_pro >>,
      << gemini_15_flash, gemini_20_flash, gemini_pro >>,
      << gemini_exp_flash, gemini_pro, gemini_ultra, text_bison >> }

\* what the zero-shot pipeline may answer
ZeroShotReplies ==
    { [raised |-> TRUE, res |-> <<>>],
      [raised |-> FALSE,
       res |-> << <<"Comedy", 40>>, <<"Drama", 90>>, <<"Horror", 70>> >>] }

\* the moods SpecRepeat passes, and its configuration
RepeatMoods ==
    { <<>>,
      <<"s", "a", "d">>,
      <<"S", "a", "d", " ">>,
      <<"z", "e", "n">> }

\* the moods SpecEnrich passes, and its configurations
EnrichMoods == { <<"s", "a", "d">> }

EnrichSettings == {st \in Settings : st.ai_mode = "off"}

\* the provider replies SpecRepeat draws from: a failure and a payload
RepeatProviderReplies == {reply \in ProviderReplies : "US" \notin DOMAIN reply.results}

\* SpecRemote: remote mode with its credential, two requests in flight
\* at once, two moods
MaxRemoteCalls == 3

RemoteMoods ==
    { <<"s", "a", "d">>,
      <<"f", "e", "l", "i", "z">> }

RemoteSettings ==
    [ai_mode |-> "remote", gemini_api_key |-> TRUE, tmdb_include_providers |-> TRUE]

RemoteGeminiReplies ==
    { reply \in GeminiReplies :
        \/ reply.status = 404
        \/ reply.body = [shape |-> "list", names |-> <<"Drama", "Horror", "Comedy">>] }

RemoteModelLists == { << gemini_15_flash, gemini_20_flash, gemini_pro >> }

RemoteDiscoverReplies ==
    { reply \in DiscoverReplies : reply.kind = "http" /\ reply.status = 200 }

RemoteSearchReplies == { reply \in SearchReplies : reply.results = <<>> }

RemoteProviderReplies == { reply \in ProviderReplies : "BR" \in DOMAIN reply.results }

RepeatSettings ==
    [ai_mode |-> "off", gemini_api_key |-> TRUE, tmdb_include_providers |-> TRUE]

VARIABLES
    scope,        \* what the behaviour explores, fixed at start:
                  \* [moods, calls, slots, tick, discover, search, providers,
                  \*  gemini, models]
    settings,     \* the configuration (config.py), fixed at start
    cache,        \* recommendation_service.cache
    now,          \* the cache's timer, in seconds
    running,      \* the request the event loop is running, or NoOne
    MODEL_NAME,   \* gemini_emotion.MODEL_NAME
    zs,           \* genre_mapper._zs is not None
    req,          \* per request: the locals of recommend_by_mood and its history
    rets,         \* history: what the calls so far returned
    ncalls,       \* history: the number of calls made
    call,         \* the last application of a pure function: [fn, arg, k, out]
    used,         \* history: the keys still in the cache, in the order of their
                  \* last use (a successful read or a store), oldest first
    probe,        \* history of is_available(): [failed, again], whether a load of
                  \* the zero-shot backend has failed, and whether a load was
                  \* attempted after that
    remote        \* history of the remote classifier: [adopted, answered], the
                  \* substitutes MODEL_NAME was set to, in order, and the models
                  \* that answered a generation request with a status below 300

vars == <<call, used, probe, remote, scope, settings, cache, now, running, MODEL_NAME, zs, req, rets, ncalls>>

\* a request outside any call
Idle ==
    [pc |-> "idle", mood |-> <<>>, seed |-> <<>>, key |-> <<>>, top |-> <<>>,
     genre_ids |-> <<>>, attempt |-> 0, rows |-> <<>>, idx |-> 0, items |-> <<>>,
     \* history of the call
     hit |-> FALSE, seen |-> None, prev |-> {}, result |-> <<>>,
     escaped |-> FALSE, remote_raised |-> FALSE, remote_no_valid |-> FALSE,
     n_classify |-> 0, n_discover |-> 0, n_search |-> 0, n_providers |-> 0,
     n_writes |-> 0, dres |-> "none", dreq |-> None,
     \* history of the remote classification, kept until the call leaves
     \* line 41: the models the generation requests were addressed to, how
     \* each was answered, the model list found
     sent |-> <<>>, answers |-> <<>>, listed |-> None,
     \* history of the catalog method in progress or last called, kept until
     \* the call leaves the try block: the outcome of each attempt, and how
     \* the method ended ("value" or "raised")
     tries |-> <<>>, ended |-> "none",
     \* history: per row of the loop, what get_watch_providers returned
     \* (None when it raised or was not called)
     fetched |-> <<>>,
     \* history: the time at which the call stored its result
     stored_at |-> 0]

\* no pure function applied yet
NoCall == [fn |-> "none", arg |-> <<>>, k |-> 0, out |-> <<>>]

\* the history of uses after the cache has become c2, and after key has
\* been used as well
still_cached(u, c2) == SelectSeq(u, LAMBDA k : HasKey(c2, k))

touched(u, key, c2) == Append(SelectSeq(still_cached(u, c2), LAMBDA k : k # key), key)

Start ==
    /\ call = NoCall
    /\ used = <<>>
    /\ probe = [failed |-> FALSE, again |-> FALSE]
    /\ remote = [adopted |-> <<>>, answered |-> {}]
    /\ cache = <<>>
    /\ now = 0
    /\ running = NoOne
    /\ MODEL_NAME = gemini_pro
    /\ zs = FALSE
    /\ req = [r \in Requests |-> Idle]
    /\ rets = {}
    /\ ncalls = 0

Init ==
    /\ scope = [moods |-> Moods, calls |-> MaxCalls, slots |-> {"r1"}, tick |-> MaxTime,
                discover |-> DiscoverReplies, search |-> SearchReplies,
                providers |-> ProviderReplies,
                gemini |-> GeminiReplies, models |-> ModelLists]
    /\ settings \in Settings
    /\ Start

InitRepeat ==
    /\ scope = [moods |-> RepeatMoods, calls |-> MaxRepeatCalls, slots |-> {"r1"},
                tick |-> TickStep, discover |-> DiscoverReplies, search |-> SearchReplies,
                providers |-> RepeatProviderReplies, gemini |-> {}, models |-> {}]
    /\ settings = RepeatSettings
    /\ Start

InitRemote ==
    /\ scope = [moods |-> RemoteMoods, calls |-> MaxRemoteCalls, slots |-> {"r1", "r2"},
                tick |-> MaxTime, discover |-> RemoteDiscoverReplies,
                search |-> RemoteSearchReplies,
                providers |-> RemoteProviderReplies,
                gemini |-> RemoteGeminiReplies, models |-> RemoteModelLists]
    /\ settings = RemoteSettings
    /\ Start

InitEnrich ==
    /\ scope = [moods |-> EnrichMoods, calls |-> MaxCalls, slots |-> {"r1"}, tick |-> MaxTime,
                discover |-> EnrichDiscoverReplies, search |-> SearchReplies,
                providers |-> ProviderReplies,
                gemini |-> {}, models |-> {}]
    /\ settings \in EnrichSettings
    /\ Start

\* time passes
Tick ==
    /\ now < MaxTime
    /\ now' = now + scope.tick
    /\ UNCHANGED <<call, used, probe, remote, scope, settings, cache, running, MODEL_NAME, zs, req, rets, ncalls>>

\* recommend_by_mood(mood) is called; lines 21-23: the key and `key in cache`
Lookup(r, mood) ==
    /\ running = NoOne
    /\ req[r].pc = "idle"
    /\ ncalls < scope.calls
    /\ mood \in scope.moods
    /\ r \in scope.slots
    /\ LET key == key_of(mood)
           present == cache_contains(cache, key, now)
       IN  req' = [req EXCEPT ![r] =
                     [Idle EXCEPT !.pc = after_lookup(present),
                                  !.mood = mood,
                                  !.seed = seed_of(mood),
                                  !.key = key,
                                  !.hit = present,
                                  !.seen = IF present THEN ValueOf(cache, key) ELSE None,
                                  !.prev = {[mood |-> x.mood, items |-> x.items] :
                                              x \in {y \in rets : /\ y.key = key
                                                                  /\ now < y.stored + ttl}}]]
    /\ running' = r
    /\ ncalls' = ncalls + 1
    /\ UNCHANGED <<call, used, probe, remote, scope, settings, cache, now, MODEL_NAME, zs, rets>>

\* line 24: cache[key], which returns the value or raises KeyError
Read(r) ==
    /\ running = r
    /\ req[r].pc = "Read"
    /\ LET g == cache_getitem(cache, req[r].key, now)
       IN  /\ cache' = g.cache
           /\ req' = [req EXCEPT ![r].pc = IF g.raised THEN "Raise" ELSE "Return",
                                 ![r].result = g.value]
           /\ used' = IF g.raised THEN still_cached(used, g.cache)
                      ELSE touched(used, req[r].key, g.cache)
    /\ UNCHANGED <<call, probe, remote, scope, settings, now, running, MODEL_NAME, zs, rets, ncalls>>

\* what ClassifyGenres does with a classification c
Classified(r, c) ==
    /\ MODEL_NAME' = c.model_name
    /\ zs' = c.zs
    /\ probe' = [failed |-> probe.failed \/ (c.loads = 1 /\ ~c.zs),
                 again |-> probe.again \/ (probe.failed /\ c.loads = 1)]
    /\ remote' = [adopted |-> IF c.model_name # MODEL_NAME
                              THEN Append(remote.adopted, c.model_name)
                              ELSE remote.adopted,
                  answered |-> remote.answered \cup
                                   {c.sent[i] : i \in {j \in 1..Len(c.sent) : c.answers[j] = "ok"}}]
    /\ req' = [req EXCEPT ![r] =
                 [@ EXCEPT !.pc = IF c.escaped THEN "SyntheticFallback" ELSE "QueryCatalog",
                           !.top = c.top,
                           !.genre_ids = IF c.escaped THEN <<>> ELSE genre_ids_of(c.top),
                           !.escaped = c.escaped,
                           !.remote_raised = c.remote_raised,
                           !.remote_no_valid = c.no_valid,
                           !.sent = c.sent,
                           !.answers = c.answers,
                           !.listed = c.listed,
                           !.n_classify = 1]]

NoReply == [kind |-> "error", status |-> 0, not_found |-> FALSE, body |-> NoBody]

NoZeroShot == [raised |-> TRUE, res |-> <<>>]

\* lines 28-41: the genres of the mood.  In remote mode with a credential,
\* map_via_gemini_api posts the generation request with a synchronous
\* client (gemini_emotion.py:150-152): the request waits for the answer
\* without leaving the event loop.  Every other classification needs no
\* answer from the network and is done at once.
ClassifyGenres(r) ==
    /\ running = r
    /\ req[r].pc = "ClassifyGenres"
    /\ IF settings.ai_mode = "remote" /\ settings.gemini_api_key
       THEN /\ req' = [req EXCEPT ![r].pc = "AwaitRemote", ![r].sent = <<MODEL_NAME>>]
            /\ UNCHANGED <<MODEL_NAME, zs, probe, remote>>
       ELSE IF settings.ai_mode = "local"
       THEN \E load \in BOOLEAN, zres \in ZeroShotReplies :
               Classified(r, resolve_genres(settings, req[r].mood, MODEL_NAME,
                   zs, NoReply, <<>>, NoReply, load, zres))
       ELSE Classified(r, resolve_genres(settings, req[r].mood, MODEL_NAME,
                   zs, NoReply, <<>>, NoReply, FALSE, NoZeroShot))
    /\ UNCHANGED <<call, used, scope, settings, cache, now, running, rets, ncalls>>

\* gemini_emotion.py:152-259 and lines 33-35, 41: the remote classifier is
\* answered: the first generation request, and after a 404 "not found"
\* the model list and the request to the substitute, all awaited by the
\* same blocking client.
RemoteReply(r) ==
    /\ running = r
    /\ req[r].pc = "AwaitRemote"
    /\ \E reply1 \in scope.gemini :
           IF reply1.status = 404
           THEN \E available \in scope.models :
                   IF choose_fallback_model(available, MODEL_NAME) # None
                   THEN \E reply2 \in scope.gemini :
                           Classified(r, resolve_genres(settings, req[r].mood, MODEL_NAME,
                               zs, reply1, available, reply2, FALSE, NoZeroShot))
                   ELSE Classified(r, resolve_genres(settings, req[r].mood, MODEL_NAME,
                               zs, reply1, available, NoReply, FALSE, NoZeroShot))
           ELSE Classified(r, resolve_genres(settings, req[r].mood, MODEL_NAME,
                       zs, reply1, <<>>, NoReply, FALSE, NoZeroShot))
    /\ UNCHANGED <<call, used, scope, settings, cache, now, running, rets, ncalls>>

\* a mutant of may_retry: a fourth attempt is allowed
may_retry_four(attempt) == attempt < stop_after_attempt + 1

\* One attempt of a @retry(stop=stop_after_attempt(3)) method has failed:
\* tenacity sleeps and tries again, or raises RetryError after the last one
may_retry(attempt) == attempt < stop_after_attempt

\* a reply the client methods accept: no exception, status below 400
accepted(reply) == reply.kind = "http" /\ reply.status < 400

\* line 42, tmdb.py:66-83: an attempt of discover_by_genres(genre_ids, seed),
\* the first one or the one after a backoff sleep, up to the request it sends
DiscoverAttempt(r) ==
    /\ \/ req[r].pc = "QueryCatalog" /\ running = r
       \/ req[r].pc = "SleepDiscover" /\ running = NoOne
    /\ LET attempt == req[r].attempt + 1
           sort == pick_sort(req[r].seed)
           page == pick_page(req[r].seed, 5)
           began == IF req[r].attempt = 0 THEN <<>> ELSE req[r].tries
       IN  IF sort.raised
           THEN IF may_retry(attempt)
                THEN /\ req' = [req EXCEPT ![r].pc = "SleepDiscover",
                                           ![r].attempt = attempt,
                                           ![r].n_discover = 1,
                                           ![r].sent = <<>>, ![r].answers = <<>>, ![r].listed = None,
                                           ![r].tries = Append(began, "fail"),
                                           ![r].ended = "none"]
                     /\ running' = NoOne
                ELSE /\ req' = [req EXCEPT ![r].pc = "SyntheticFallback",
                                           ![r].attempt = 0,
                                           ![r].n_discover = 1,
                                           ![r].sent = <<>>, ![r].answers = <<>>, ![r].listed = None,
                                           ![r].dres = "raised",
                                           ![r].escaped = TRUE,
                                           ![r].tries = Append(began, "fail"),
                                           ![r].ended = "raised"]
                     /\ running' = r
           ELSE /\ req' = [req EXCEPT ![r].pc = "AwaitDiscover",
                                      ![r].attempt = attempt,
                                      ![r].n_discover = 1,
                                      ![r].sent = <<>>, ![r].answers = <<>>, ![r].listed = None,
                                      ![r].tries = began,
                                      ![r].ended = "none",
                                      ![r].dreq = Some([with_genres |-> req[r].genre_ids,
                                                        sort_by |-> sort.sort_by,
                                                        page |-> page])]
                /\ running' = NoOne
    /\ UNCHANGED <<call, used, probe, remote, scope, settings, cache, now, MODEL_NAME, zs, rets, ncalls>>

\* tmdb.py:83-95 and lines 43-44: the catalog answers the discovery request
DiscoverReply(r, reply) ==
    /\ running = NoOne
    /\ req[r].pc = "AwaitDiscover"
    /\ IF accepted(reply)
       THEN LET rows == hits_of(reply.results)
            IN  /\ req' = [req EXCEPT ![r].pc = after_discover(rows),
                                      ![r].attempt = 0,
                                      ![r].tries = Append(@, "ok"),
                                      ![r].ended = "value",
                                      ![r].rows = rows,
                                      ![r].dres = IF rows = <<>> THEN "empty" ELSE "hits"]
                /\ running' = r
       ELSE IF may_retry(req[r].attempt)
            THEN /\ req' = [req EXCEPT ![r].pc = "SleepDiscover",
                                       ![r].tries = Append(@, "fail")]
                 /\ running' = NoOne
            ELSE /\ req' = [req EXCEPT ![r].pc = "SyntheticFallback",
                                       ![r].attempt = 0,
                                       ![r].tries = Append(@, "fail"),
                                       ![r].ended = "raised",
                                       ![r].dres = "raised",
                                       ![r].escaped = TRUE]
                 /\ running' = r
    /\ UNCHANGED <<call, used, probe, remote, scope, settings, cache, now, MODEL_NAME, zs, rets, ncalls>>

\* line 44, tmdb.py:43-52: an attempt of search_by_mood(mood)
SearchAttempt(r) ==
    /\ \/ req[r].pc = "SearchCatalog" /\ running = r
       \/ req[r].pc = "SleepSearch" /\ running = NoOne
    /\ req' = [req EXCEPT ![r].pc = "AwaitSearch",
                          ![r].attempt = req[r].attempt + 1,
                          ![r].tries = IF req[r].attempt = 0 THEN <<>> ELSE @,
                          ![r].ended = "none",
                          ![r].n_search = 1]
    /\ running' = NoOne
    /\ UNCHANGED <<call, used, probe, remote, scope, settings, cache, now, MODEL_NAME, zs, rets, ncalls>>

\* tmdb.py:52-64: the catalog answers the search request
SearchReply(r, reply) ==
    /\ running = NoOne
    /\ req[r].pc = "AwaitSearch"
    /\ IF accepted(reply)
       THEN /\ req' = [req EXCEPT ![r].pc = "EnrichProviders",
                                  ![r].attempt = 0,
                                  ![r].tries = Append(@, "ok"),
                                  ![r].ended = "value",
                                  ![r].rows = hits_of(reply.results)]
            /\ running' = r
       ELSE IF may_retry(req[r].attempt)
            THEN /\ req' = [req EXCEPT ![r].pc = "SleepSearch",
                                       ![r].tries = Append(@, "fail")]
                 /\ running' = NoOne
            ELSE /\ req' = [req EXCEPT ![r].pc = "SyntheticFallback",
                                       ![r].attempt = 0,
                                       ![r].tries = Append(@, "fail"),
                                       ![r].ended = "raised",
                                       ![r].escaped = TRUE]
                 /\ running' = r
    /\ UNCHANGED <<call, used, probe, remote, scope, settings, cache, now, MODEL_NAME, zs, rets, ncalls>>

\* lines 45-64: the loop over rows, one row at a time, up to the request
\* get_watch_providers sends for it (tmdb.py:97-104); a row that needs no
\* providers is appended at once, and the loop's end goes to line 69
EnrichProviders(r) ==
    /\ \/ req[r].pc = "EnrichProviders" /\ running = r
       \/ req[r].pc = "SleepProviders" /\ running = NoOne
    /\ IF req[r].idx >= Len(req[r].rows)
       THEN /\ req' = [req EXCEPT ![r].pc = "Store",
                                  ![r].tries = <<>>,
                                  ![r].ended = "none"]
            /\ running' = running
       ELSE LET row == req[r].rows[req[r].idx + 1]
            IN  IF settings.tmdb_include_providers /\ row.id # None
                THEN /\ req' = [req EXCEPT ![r].pc = "AwaitProviders",
                                           ![r].attempt = req[r].attempt + 1,
                                           ![r].tries = IF req[r].attempt = 0 THEN <<>> ELSE @,
                                           ![r].ended = "none",
                                           ![r].n_providers =
                                               IF req[r].attempt = 0 THEN @ + 1 ELSE @]
                     /\ running' = NoOne
                ELSE /\ req' = [req EXCEPT ![r].items =
                                               Append(@, catalog_recommendation(row, None)),
                                           ![r].fetched = Append(@, None),
                                           ![r].idx = @ + 1]
                     /\ running' = running
    /\ UNCHANGED <<call, used, probe, remote, scope, settings, cache, now, MODEL_NAME, zs, rets, ncalls>>

\* tmdb.py:104-128 and lines 60-64: the catalog answers the providers request
ProvidersReply(r, reply) ==
    /\ running = NoOne
    /\ req[r].pc = "AwaitProviders"
    /\ LET row == req[r].rows[req[r].idx + 1]
       IN  IF accepted(reply)
           THEN /\ req' = [req EXCEPT ![r].pc = "EnrichProviders",
                                      ![r].attempt = 0,
                                      ![r].tries = Append(@, "ok"),
                                      ![r].ended = "value",
                                      ![r].items = Append(@, catalog_recommendation(row,
                                                      Some(watch_providers_of(reply.results)))),
                                      ![r].fetched =
                                          Append(@, Some(watch_providers_of(reply.results))),
                                      ![r].idx = @ + 1]
                /\ running' = r
           ELSE IF may_retry(req[r].attempt)
                THEN /\ req' = [req EXCEPT ![r].pc = "SleepProviders",
                                           ![r].tries = Append(@, "fail")]
                     /\ running' = NoOne
                ELSE /\ req' = [req EXCEPT ![r].pc = "EnrichProviders",
                                           ![r].attempt = 0,
                                           ![r].tries = Append(@, "fail"),
                                           ![r].ended = "raised",
                                           ![r].items =
                                               Append(@, catalog_recommendation(row, None)),
                                           ![r].fetched = Append(@, None),
                                           ![r].idx = @ + 1]
                     /\ running' = r
    /\ UNCHANGED <<call, used, probe, remote, scope, settings, cache, now, MODEL_NAME, zs, rets, ncalls>>

\* lines 65-67: the handler of the outer try
SyntheticFallback(r) ==
    /\ running = r
    /\ req[r].pc = "SyntheticFallback"
    /\ req' = [req EXCEPT ![r].pc = "Store",
                          ![r].tries = <<>>,
                          ![r].ended = "none",
                          ![r].items = Append(@, fallback_recommendation(req[r].mood))]
    /\ UNCHANGED <<call, used, probe, remote, scope, settings, cache, now, running, MODEL_NAME, zs, rets, ncalls>>

\* a mutant of Store: the list of a failed request is returned, not cached
Store_skipping_fallback(r) ==
    /\ running = r
    /\ req[r].pc = "Store"
    /\ cache' = IF req[r].escaped THEN cache
                ELSE cache_setitem(cache, req[r].key, req[r].items, now)
    /\ req' = [req EXCEPT ![r].pc = "Return",
                          ![r].result = req[r].items,
                          ![r].stored_at = now,
                          ![r].n_writes = IF req[r].escaped THEN @ ELSE @ + 1]
    /\ used' = IF req[r].escaped THEN used ELSE touched(used, req[r].key, cache')
    /\ UNCHANGED <<call, probe, remote, scope, settings, now, running, MODEL_NAME, zs, rets, ncalls>>

\* lines 69-70: result = RecommendationList(items=items); cache[key] = result.
\* The list stands for its envelope.
Store(r) ==
    /\ running = r
    /\ req[r].pc = "Store"
    /\ cache' = cache_setitem(cache, req[r].key, req[r].items, now)
    /\ req' = [req EXCEPT ![r].pc = "Return",
                          ![r].result = req[r].items,
                          ![r].stored_at = now,
                          ![r].n_writes = @ + 1]
    /\ used' = touched(used, req[r].key, cache')
    /\ UNCHANGED <<call, probe, remote, scope, settings, now, running, MODEL_NAME, zs, rets, ncalls>>

\* lines 24 and 71: the call returns result to its caller and its locals
\* are gone.  The history keeps, for a call that stored its result, what
\* it stored and returned, and when.
Return(r) ==
    /\ running = r
    /\ req[r].pc = "Return"
    /\ req' = [req EXCEPT ![r] = Idle]
    /\ rets' = IF req[r].hit THEN rets
               ELSE rets \cup {[key |-> req[r].key, mood |-> req[r].mood,
                                items |-> req[r].result, stored |-> req[r].stored_at]}
    /\ running' = NoOne
    /\ UNCHANGED <<call, used, probe, remote, scope, settings, cache, now, MODEL_NAME, zs, ncalls>>

\* an exception that no handler of recommend_by_mood catches reaches the caller
Raise(r) ==
    /\ running = r
    /\ req[r].pc = "Raise"
    /\ req' = [req EXCEPT ![r] = Idle]
    /\ running' = NoOne
    /\ UNCHANGED <<call, used, probe, remote, scope, settings, cache, now, MODEL_NAME, zs, rets, ncalls>>

Next ==
    \/ Tick
    \/ \E r \in Requests, mood \in scope.moods : Lookup(r, mood)
    \/ \E r \in Requests : Read(r)
    \/ \E r \in Requests : ClassifyGenres(r)
    \/ \E r \in Requests : RemoteReply(r)
    \/ \E r \in Requests : DiscoverAttempt(r)
    \/ \E r \in Requests, reply \in scope.discover : DiscoverReply(r, reply)
    \/ \E r \in Requests : SearchAttempt(r)
    \/ \E r \in Requests, reply \in scope.search : SearchReply(r, reply)
    \/ \E r \in Requests : EnrichProviders(r)
    \/ \E r \in Requests, reply \in scope.providers : ProvidersReply(r, reply)
    \/ \E r \in Requests : SyntheticFallback(r)
    \/ \E r \in Requests : Store(r)
    \/ \E r \in Requests : Return(r)
    \/ \E r \in Requests : Raise(r)

\* the steps of a process whose configuration never calls the remote classifier
NextOff ==
    \/ Tick
    \/ \E r \in Requests, mood \in scope.moods : Lookup(r, mood)
    \/ \E r \in Requests : Read(r)
    \/ \E r \in Requests : ClassifyGenres(r)
    \/ \E r \in Requests : DiscoverAttempt(r)
    \/ \E r \in Requests, reply \in scope.discover : DiscoverReply(r, reply)
    \/ \E r \in Requests : SearchAttempt(r)
    \/ \E r \in Requests, reply \in scope.search : SearchReply(r, reply)
    \/ \E r \in Requests : EnrichProviders(r)
    \/ \E r \in Requests, reply \in scope.providers : ProvidersReply(r, reply)
    \/ \E r \in Requests : SyntheticFallback(r)
    \/ \E r \in Requests : Store(r)
    \/ \E r \in Requests : Return(r)
    \/ \E r \in Requests : Raise(r)

Spec == Init /\ [][Next]_vars

SpecRemote == InitRemote /\ [][Next]_vars

SpecRepeat == InitRepeat /\ [][NextOff]_vars

SpecEnrich == InitEnrich /\ [][NextOff]_vars

\* a step of request r after its call has begun: the event loop runs every
\* task that is ready, and every upstream call is answered or fails
\* (the clients have timeouts, config.py request_timeout_s)
RequestStep(r) ==
    \/ Read(r)
    \/ ClassifyGenres(r)
    \/ RemoteReply(r)
    \/ DiscoverAttempt(r)
    \/ \E reply \in scope.discover : DiscoverReply(r, reply)
    \/ SearchAttempt(r)
    \/ \E reply \in scope.search : SearchReply(r, reply)
    \/ EnrichProviders(r)
    \/ \E reply \in scope.providers : ProvidersReply(r, reply)
    \/ SyntheticFallback(r)
    \/ Store(r)
    \/ Return(r)
    \/ Raise(r)

SpecLive == InitEnrich /\ [][NextOff]_vars /\ \A r \in Requests : WF_vars(RequestStep(r))

\* ------------------------------------------- the pure functions, applied

\* str.upper() and str.capitalize() on ASCII letters, to spell the inputs
UpperChar(c) ==
    IF \E u \in DOMAIN LowerOf : LowerOf[u] = c
    THEN CHOOSE u \in DOMAIN LowerOf : LowerOf[u] = c ELSE c

Upper(s) == [i \in 1..Len(s) |-> UpperChar(s[i])]

Capitalize(s) == [i \in 1..Len(s) |-> IF i = 1 THEN UpperChar(s[i]) ELSE s[i]]

\* moods that are no keyword of the static table, in any case
UnknownMoods ==
    { <<>>, <<" ">>, <<"z", "e", "n">>, <<"Z", "e", "n">>, <<"s", "a", "d", " ">>,
      <<" ", "s", "a", "d">>, <<"s", "a", "d", "s">>, <<"s", "a">>,
      <<"f", "e", "l", "i", "z", " ", "s", "a", "d">> }

\* the moods the static mapping is applied to: every keyword in three
\* spellings, and the unknown moods
PureMoods ==
    DOMAIN FALLBACK_MAP \cup {Upper(kw) : kw \in DOMAIN FALLBACK_MAP}
        \cup {Capitalize(kw) : kw \in DOMAIN FALLBACK_MAP} \cup UnknownMoods

\* the top_k the static mapping is applied with: 0..MaxTopK
MaxTopK == 3

\* the seeds the page/sort derivation is applied to
PureSeeds == DOMAIN Sha256Prefix

InitPure ==
    /\ scope = [moods |-> PureMoods, calls |-> 0, slots |-> {}, tick |-> MaxTime,
                discover |-> {}, search |-> {}, providers |-> {}, gemini |-> {}, models |-> {}]
    /\ settings = RepeatSettings
    /\ Start

\* fallback_genres_for(mood, top_k)
Call_fallback_genres_for(mood, top_k) ==
    /\ call' = [fn |-> "fallback_genres_for", arg |-> mood, k |-> top_k,
                out |-> fallback_genres_for(mood, top_k)]
    /\ UNCHANGED <<used, probe, remote, scope, settings, cache, now, running, MODEL_NAME, zs, req, rets, ncalls>>

\* recommendation_service.py:28-30 and 41 in off mode: the genre ids
\* recommend_by_mood passes to discover_by_genres on line 42
Call_off_genre_ids(mood) ==
    /\ call' = [fn |-> "off_genre_ids", arg |-> mood, k |-> TopK,
                out |-> genre_ids_of(resolve_genres(settings, mood, MODEL_NAME, zs,
                            NoReply, <<>>, NoReply, FALSE, NoZeroShot).top)]
    /\ UNCHANGED <<used, probe, remote, scope, settings, cache, now, running, MODEL_NAME, zs, req, rets, ncalls>>

\* the moods two cold-cache calls are compared on: spellings of one keyword
\* that differ in case and in surrounding blanks, another keyword, an
\* unknown mood in two spellings, the empty and the blank mood
PairMoods ==
    { <<"s", "a", "d">>, <<"S", "A", "D">>, <<"S", "a", "d", " ">>, <<" ", "s", "a", "d">>,
      <<"f", "e", "l", "i", "z">>, <<"z", "e", "n">>, <<"Z", "e", "n">>, <<>>, <<" ">> }

\* recommendation_service.py:21-22, 28-30 and 41 for two calls on a cold
\* cache in off mode: for each mood, the key the list is cached under and
\* the genre ids passed to discover_by_genres on line 42
Call_off_genre_ids_twice(mood1, mood2) ==
    /\ call' = [fn |-> "off_genre_ids_twice", arg |-> <<mood1, mood2>>, k |-> TopK,
                out |-> [m \in 1..2 |->
                           LET mood == <<mood1, mood2>>[m]
                           IN  [key |-> key_of(mood),
                                genre_ids |->
                                    genre_ids_of(resolve_genres(settings, mood, MODEL_NAME,
                                        zs, NoReply, <<>>, NoReply, FALSE, NoZeroShot).top)]]]
    /\ UNCHANGED <<used, probe, remote, scope, settings, cache, now, running, MODEL_NAME, zs, req, rets, ncalls>>

\* tmdb.py:72-73: page = _pick_page(seed, max_pages=5); sort_by = _pick_sort(seed)
Call_pick(seed) ==
    /\ call' = [fn |-> "pick", arg |-> seed, k |-> 5,
                out |-> [page |-> pick_page(seed, 5), sort |-> pick_sort(seed)]]
    /\ UNCHANGED <<used, probe, remote, scope, settings, cache, now, running, MODEL_NAME, zs, req, rets, ncalls>>

\* the model lists and the active models _choose_fallback_model is
\* applied to (lists sorted, as _list_models leaves them)
PureModelLists ==
    ModelLists \cup
    { <<>>,
      << text_bison >>,
      << gemini_ultra, text_bison >>,
      << gemini_20_flash >>,
      << gemini_15_flash_latest, gemini_20_flash_lite, gemini_exp_flash >>,
      << gemini_15_flash, gemini_15_flash_latest, gemini_20_flash, gemini_20_flash_001,
         gemini_20_flash_lite, gemini_pro >>,
      << gemini_exp_flash, gemini_ultra >> }

PureModelNames == { gemini_pro, gemini_20_flash, gemini_exp_flash, gemini_ultra }

\* gemini_emotion.py:174-175: target = _choose_fallback_model()
Call_choose_fallback_model(available, model_name) ==
    /\ call' = [fn |-> "choose_fallback_model",
                arg |-> [available |-> available, model_name |-> model_name], k |-> 0,
                out |-> choose_fallback_model(available, model_name)]
    /\ UNCHANGED <<used, probe, remote, scope, settings, cache, now, running, MODEL_NAME, zs, req, rets, ncalls>>

\* data["results"] of the payloads get_watch_providers is applied to: the
\* configured region with repeated names, with more than 8 names, with an
\* empty entry, with empty sections, absent; the default region present or not
PureProviderResults ==
    { <<>>,
      ("PT" :> ("flatrate" :> <<"Netflix">>)),
      ("BR" :> (("flatrate" :> <<"Netflix", "Prime Video">>) @@ ("rent" :> <<"Netflix">>))),
      ("US" :> ("buy" :> <<"Apple TV">>)),
      ("BR" :> (("free" :> <<"Pluto", "Netflix">>) @@ ("buy" :> <<"Apple TV", "Netflix">>) @@
                ("link" :> <<"Elsewhere">>) @@ ("flatrate" :> <<"Netflix", "Max">>) @@
                ("ads" :> <<"Pluto">>) @@ ("rent" :> <<"Apple TV", "Max", "Claro">>)))
        @@ ("US" :> ("flatrate" :> <<"Hulu">>)),
      ("BR" :> (("flatrate" :> <<>>) @@ ("rent" :> <<>>))) @@ ("US" :> ("flatrate" :> <<"Hulu">>)),
      ("BR" :> <<>>) @@
      ("US" :> (("flatrate" :> <<"A", "B", "C">>) @@ ("rent" :> <<"B", "D", "E">>) @@
                ("buy" :> <<"A", "F", "G">>) @@ ("ads" :> <<"H", "I">>) @@
                ("free" :> <<"J">>))),
      ("BR" :> ("rent" :> <<"A", "B", "C", "D", "E", "F", "G", "H">>)),
      ("BR" :> <<>>) @@ ("US" :> <<>>) }

\* tmdb.py:107-128: get_watch_providers on the payload of an accepted reply
Call_watch_providers_of(results) ==
    /\ call' = [fn |-> "watch_providers_of", arg |-> results, k |-> 8,
                out |-> watch_providers_of(results)]
    /\ UNCHANGED <<used, probe, remote, scope, settings, cache, now, running, MODEL_NAME, zs, req, rets, ncalls>>

\* an upstream result with id i, a title of i characters and a rating
Rated(i, vote_average) ==
    [title |-> [j \in 1..i |-> "t"], name |-> <<>>, vote_average |-> vote_average,
     id |-> Some(i)]

\* the longest result list the hits are computed from
MaxResults == 12

\* payload["results"] of the replies the hits are computed from: up to
\* MaxResults results, with ratings below 0, within 0..10, above 10, absent
PureCatalogResults ==
    { <<>>, <<M1, M2, M3>>, <<M2>> }
    \cup { [i \in 1..n |-> Rated(i, Some(130 - 12 * i))] : n \in 9..MaxResults }
    \cup { [i \in 1..n |-> Rated(i, IF i % 4 = 0 THEN None ELSE Some(12 * i - 20))] :
              n \in 9..MaxResults }

\* tmdb.py:56-64 and 87-95: the hits of a payload, and lines 46-64 of
\* recommend_by_mood without providers: the items made from them
Call_hits_of(results) ==
    /\ call' = [fn |-> "hits_of", arg |-> results, k |-> 10,
                out |-> LET rows == hits_of(results)
                        IN  [rows |-> rows,
                             items |-> [i \in 1..Len(rows) |->
                                           catalog_recommendation(rows[i], None)],
                             fallback |-> fallback_recommendation(<<"s", "a", "d">>)]]
    /\ UNCHANGED <<used, probe, remote, scope, settings, cache, now, running, MODEL_NAME, zs, req, rets, ncalls>>

NextPure ==
    \/ \E results \in PureCatalogResults : Call_hits_of(results)
    \/ \E results \in PureProviderResults : Call_watch_providers_of(results)
    \/ \E mood \in scope.moods, top_k \in 0..MaxTopK : Call_fallback_genres_for(mood, top_k)
    \/ \E mood \in scope.moods : Call_off_genre_ids(mood)
    \/ \E mood1 \in PairMoods, mood2 \in PairMoods : Call_off_genre_ids_twice(mood1, mood2)
    \/ \E seed \in PureSeeds : Call_pick(seed)
    \/ \E available \in PureModelLists, model_name \in PureModelNames :
           Call_choose_fallback_model(available, model_name)

SpecPure == InitPure /\ [][NextPure]_vars

\* ------------------------------------------------------------- properties

NoUpstream(r) ==
    /\ req[r].n_classify = 0
    /\ req[r].n_discover = 0
    /\ req[r].n_search = 0
    /\ req[r].n_providers = 0
    /\ req[r].n_writes = 0

IsFallbackItem(it, mood) ==
    /\ it.source = "fallback"
    /\ it.score = 50
    /\ Contains(it.title, mood)

Mixed(items) ==
    /\ \E i \in 1..Len(items) : items[i].source = "fallback"
    /\ \E i \in 1..Len(items) : items[i].source # "fallback"

\* two moods have the same lower-cased, trimmed form
NormEq(m1, m2) == Strip(Lower(m1)) = Strip(Lower(m2))

\* C1: recommend_by_mood never lets an error reach its caller, a cache
\* entry that expires between the membership test and the read included.
C1_NeverPropagates == \A r \in Requests : req[r].pc # "Raise"

\* C2: when an exception leaves the classification or the catalog stage,
\* the call returns exactly one item, with source "fallback", score 0.5 and
\* a title that contains the mood as given; no list the service builds,
\* returns or caches mixes that item with catalog items.
C2_FallbackIsAlone ==
    /\ \A r \in Requests :
          /\ (req[r].escaped /\ req[r].pc = "Return") =>
                 /\ Len(req[r].result) = 1
                 /\ IsFallbackItem(req[r].result[1], req[r].mood)
          /\ ~Mixed(req[r].items)
          /\ ~Mixed(req[r].result)
    /\ \A i \in 1..Len(cache) : ~Mixed(cache[i].value)

C2_Witness ==
    \E r \in Requests :
        /\ req[r].escaped
        /\ req[r].pc = "Return"
        /\ req[r].mood # <<>>
        /\ req[r].dres = "empty"

\* C3 as stated: within the lifetime of the entry an earlier call stored
\* for the same mood, a further call returns that call's list and invokes
\* nothing upstream.
C3_Idempotent ==
    \A r \in Requests :
        req[r].pc = "Return" =>
            \A p \in req[r].prev :
                p.mood = req[r].mood => (req[r].result = p.items /\ NoUpstream(r))

\* C3 amended: a call that finds its key in the cache, unexpired, invokes
\* no classifier and no catalog method and writes nothing; when it returns,
\* it returns the list that was stored under the key, which an earlier call
\* for the key returned within the entry's lifetime.
C3_HitIsPure ==
    \A r \in Requests :
        req[r].hit =>
            /\ NoUpstream(r)
            /\ req[r].pc \in {"Read", "Return", "Raise"}
            /\ req[r].pc = "Return" =>
                   /\ Some(req[r].result) = req[r].seen
                   /\ \E p \in req[r].prev : p.items = req[r].result

C3_Witness ==
    \E r \in Requests :
        /\ req[r].hit
        /\ req[r].pc = "Return"
        /\ \E p \in req[r].prev : p.mood = req[r].mood /\ p.items = req[r].result
        /\ ncalls >= 3

\* C4 as stated: a call whose mood has the lower-cased, trimmed form of an
\* earlier call's mood, made within the entry's lifetime, is a hit that
\* returns the earlier call's list.
C4_SameFormHits ==
    \A r \in Requests :
        req[r].pc = "Return" =>
            \A p \in req[r].prev : req[r].hit /\ req[r].result = p.items

\* C4 amended: the cache is keyed by the lower-cased, trimmed mood.  A call
\* is a hit exactly when an unexpired entry of a call with the same
\* normalized mood is in the cache; what a hit reads is such an entry; and
\* storing a result leaves the entries of other normalized moods as they
\* were, or evicts them.
C4_KeyedByNormalizedMood ==
    [][\A r \in Requests :
          LET SameForm(i, m) == \E x \in rets : x.key = cache[i].key /\ NormEq(x.mood, m)
          IN  /\ (req[r].pc = "idle" /\ req'[r].pc # "idle") =>
                     (req'[r].hit <=>
                         \E i \in 1..Len(cache) :
                             now < cache[i].expires /\ SameForm(i, req'[r].mood))
              /\ (req[r].pc = "Read" /\ req'[r].pc = "Return") =>
                     \E i \in 1..Len(cache) :
                         SameForm(i, req[r].mood) /\ cache[i].value = req'[r].result
              /\ (req[r].pc = "Store" /\ req'[r].pc = "Return") =>
                     /\ ValueOf(cache', req[r].key) = Some(req'[r].result)
                     /\ \A i \in 1..Len(cache) :
                            ~SameForm(i, req[r].mood) =>
                                ValueOf(cache', cache[i].key) \in {None, Some(cache[i].value)}
      ]_vars

C4_Witness ==
    \E r \in Requests :
        /\ req[r].hit
        /\ req[r].pc = "Return"
        /\ \E p \in req[r].prev : p.mood # req[r].mood /\ p.items = req[r].result
        /\ Len(cache) = 2

PastClassification(r) == req[r].n_classify = 1

\* C5: in remote mode, when the remote classifier raises (missing key,
\* network failure, bad answer), the call goes on with the genres the off
\* mode takes for the same mood: the same static mapping, the same genre
\* ids, the same discovery request.
C5_RemoteFailureIsOffMode ==
    \A r \in Requests :
        (settings.ai_mode = "remote" /\ req[r].remote_raised /\ PastClassification(r)) =>
            LET off == resolve_genres([settings EXCEPT !.ai_mode = "off"], req[r].mood,
                                      MODEL_NAME, zs, NoReply, <<>>, NoReply, FALSE, NoZeroShot)
            IN  /\ req[r].top = off.top
                /\ req[r].genre_ids = genre_ids_of(off.top)
                /\ req[r].dreq # None => req[r].dreq[1].with_genres = genre_ids_of(off.top)

C5_Witness ==
    \E r \in Requests :
        /\ settings.ai_mode = "remote"
        /\ settings.gemini_api_key
        /\ req[r].remote_raised
        /\ ~req[r].remote_no_valid
        /\ req[r].top # <<>>
        /\ req[r].dreq # None
        /\ req[r].pc = "Return"

\* C6: a remote answer that parses as a JSON array but names no genre of
\* the vocabulary makes the remote classifier raise, and the call takes
\* the static mapping: it never goes on with an empty genre list.
C6_NoValidGenreRaises ==
    \A r \in Requests :
        req[r].remote_no_valid =>
            /\ req[r].remote_raised
            /\ req[r].top = fallback_genres_for(req[r].mood, TopK)
            /\ req[r].genre_ids # <<>>
            /\ req[r].genre_ids = genre_ids_of(req[r].top)

C6_Witness ==
    \E r \in Requests :
        /\ req[r].remote_no_valid
        /\ req[r].top # <<>>
        /\ req[r].dreq # None
        /\ req[r].dreq[1].with_genres = genre_ids_of(fallback_genres_for(req[r].mood, TopK))

\* C7: every call of discover_by_genres passes a non-empty list of genre
\* ids; when the classification yields no genre the list is [35].
C7_DiscoverGetsGenres ==
    \A r \in Requests :
        (req[r].pc = "QueryCatalog" \/ req[r].n_discover > 0) =>
            /\ req[r].genre_ids # <<>>
            /\ req[r].top = <<>> => req[r].genre_ids = <<35>>
            /\ req[r].dreq # None =>
                   /\ req[r].dreq[1].with_genres = req[r].genre_ids
                   /\ req[r].dreq[1].with_genres # <<>>

C7_Witness ==
    \E r \in Requests :
        /\ req[r].n_discover = 1
        /\ req[r].top = <<>>
        /\ req[r].genre_ids = <<35>>

\* C8: in off mode the mood "" yields no genre, so the genre ids are [35],
\* and the catalog is queried with them.
C8_EmptyMoodQueriesCatalog ==
    \A r \in Requests :
        (settings.ai_mode = "off" /\ req[r].mood = <<>> /\ req[r].pc = "Store") =>
            /\ req[r].top = <<>>
            /\ req[r].genre_ids = <<35>>
            /\ req[r].dreq # None
            /\ req[r].dreq[1].with_genres = <<35>>

C10_NeverEmpty ==
    /\ \A r \in Requests : req[r].pc = "Return" => req[r].result # <<>>
    /\ \A i \in 1..Len(cache) : cache[i].value # <<>>

\* C11: a call of discover_by_genres, search_by_mood or get_watch_providers
\* makes at most 3 attempts, none after the first that succeeds, and ends
\* by raising (never by returning a value) when the third attempt fails too.
C11_AtMostThreeAttempts ==
    \A r \in Requests :
        LET tries == req[r].tries
            AllFailed(n) == \A i \in 1..n : tries[i] = "fail"
        IN  /\ Len(tries) <= stop_after_attempt
            /\ req[r].attempt <= stop_after_attempt
            /\ AllFailed(Len(tries) - 1)
            /\ req[r].ended = "value" <=> (tries # <<>> /\ tries[Len(tries)] = "ok")
            /\ req[r].ended = "raised" <=> (Len(tries) = stop_after_attempt /\ AllFailed(Len(tries)))
            /\ req[r].pc \in {"SleepDiscover", "SleepSearch", "SleepProviders"} =>
                   (req[r].ended = "none" /\ Len(tries) = req[r].attempt)
            /\ req[r].pc \in {"AwaitDiscover", "AwaitSearch", "AwaitProviders"} =>
                   (req[r].ended = "none" /\ Len(tries) = req[r].attempt - 1)

C11_Witness ==
    \E r \in Requests :
        /\ req[r].ended = "raised"
        /\ req[r].tries = <<"fail", "fail", "fail">>
        /\ req[r].n_search = 1
        /\ req[r].pc = "SyntheticFallback"

\* C12: a failure of get_watch_providers for one title leaves only that
\* title without providers: the call still returns every catalog hit as an
\* item of the catalog, in order, and each other title keeps the list
\* fetched for it.  With enrichment disabled get_watch_providers is never
\* called and no item has providers.
C12_EnrichmentFailsPerTitle ==
    \A r \in Requests :
        LET q == req[r]
            n == Len(q.items)
        IN  /\ q.escaped => q.n_providers = 0
            /\ (~q.escaped /\ ~q.hit) =>
                   /\ n = Len(q.fetched)
                   /\ n <= Len(q.rows)
                   /\ q.pc \in {"Store", "Return"} => n = Len(q.rows)
                   /\ \A i \in 1..n :
                          /\ q.items[i].title = q.rows[i].title
                          /\ q.items[i].score = q.rows[i].score
                          /\ q.items[i].source = "TMDB"
                          /\ q.items[i].providers = q.fetched[i]
                   /\ q.n_providers = Cardinality({i \in 1..Len(q.rows) :
                          /\ settings.tmdb_include_providers
                          /\ q.rows[i].id # None
                          /\ i <= n \/ (i = n + 1 /\ q.pc \in {"AwaitProviders", "SleepProviders"})})
            /\ ~settings.tmdb_include_providers =>
                   /\ q.n_providers = 0
                   /\ \A i \in 1..n : q.items[i].providers = None

C12_Witness ==
    \E r \in Requests :
        /\ settings.tmdb_include_providers
        /\ req[r].pc = "Return"
        /\ ~req[r].hit
        /\ Len(req[r].result) = 3
        /\ req[r].n_providers = 2
        /\ req[r].result[1].providers = None
        /\ req[r].result[3].providers # None
        /\ req[r].result[3].providers # Some(<<>>)

\* the lists the service holds or hands out in this state
ListsInState ==
    {req[r].items : r \in Requests} \cup {req[r].result : r \in Requests}
        \cup {cache[i].value : i \in 1..Len(cache)}

SourcesIn(tags, fromHit) ==
    /\ \A items \in ListsInState : \A i \in 1..Len(items) : items[i].source \in tags
    /\ \A r \in Requests :
          (~req[r].hit /\ ~req[r].escaped) =>
              \A i \in 1..Len(req[r].items) : req[r].items[i].source = fromHit

\* C13 as stated: an item made from a catalog hit has the source tag
\* "catalog", and every item returned has a tag in {"catalog", "fallback"}.
C13_SourceIsCatalog == SourcesIn({"catalog", "fallback"}, "catalog")

\* C13 amended: an item made from a catalog hit has the source tag "TMDB",
\* and every item returned or cached has a tag in {"TMDB", "fallback"}.
C13_SourceIsTMDB == SourcesIn({"TMDB", "fallback"}, "TMDB")

C13_Witness ==
    \E r \in Requests :
        /\ req[r].pc = "Return"
        /\ ~req[r].escaped
        /\ Len(req[r].result) = 2
        /\ req[r].result[1].source = "TMDB"
        /\ req[r].result[2].source = "TMDB"

\* the mood equals, ignoring case, a keyword of the static table
IsKeyword(mood) == \E kw \in DOMAIN FALLBACK_MAP : Lower(mood) = Lower(kw)

\* the table's names for a keyword in any case, cut to top_k, with their ids
TableEntry(mood, top_k) ==
    LET kw == CHOOSE w \in DOMAIN FALLBACK_MAP : Lower(mood) = Lower(w)
        names == FALLBACK_MAP[kw]
        n == IF top_k < Len(names) THEN top_k ELSE Len(names)
    IN  [i \in 1..n |-> <<names[i], TMDB_GENRES[names[i]]>>]

\* C14: for a mood that is, ignoring case, a keyword of the static table,
\* and any top_k >= 0, fallback_genres_for returns the table's names for the
\* keyword, in table order, cut to top_k, each with its vocabulary id; for
\* "feliz" in off mode discovery gets the ids of Comedy and Romance, in
\* that order.
C14_StaticMappingIsTheTable ==
    /\ (call.fn = "fallback_genres_for" /\ IsKeyword(call.arg)) =>
           call.out = TableEntry(call.arg, call.k)
    /\ (call.fn = "off_genre_ids" /\ call.arg = <<"f", "e", "l", "i", "z">>) =>
           call.out = <<35, 10749>>

C14_Witness ==
    /\ call.fn = "fallback_genres_for"
    /\ call.arg = <<"F", "E", "L", "I", "Z">>
    /\ call.k = 1
    /\ call.out = << <<"Comedy", 35>> >>

\* C15 as stated: for a mood that is not, ignoring case, a keyword of the
\* static table, fallback_genres_for with top_k >= 1 returns the one pair
\* ("Comedy", 35).
C15_UnknownIsComedy ==
    (call.fn = "fallback_genres_for" /\ ~IsKeyword(call.arg) /\ call.k >= 1) =>
        call.out = << <<"Comedy", 35>> >>

\* C15 amended: the same for every non-empty mood; for the empty mood the
\* result is the empty list.
C15_NonEmptyUnknownIsComedy ==
    (call.fn = "fallback_genres_for" /\ ~IsKeyword(call.arg)) =>
        /\ (call.arg # <<>> /\ call.k >= 1) => call.out = << <<"Comedy", 35>> >>
        /\ call.arg = <<>> => call.out = <<>>

C15_Witness ==
    /\ call.fn = "fallback_genres_for"
    /\ call.arg = <<"s", "a", "d", " ">>
    /\ call.k = 2
    /\ call.out = << <<"Comedy", 35>> >>

VocabularyIds == {TMDB_GENRES[name] : name \in DOMAIN TMDB_GENRES}

InVocabulary(top) ==
    \A i \in 1..Len(top) :
        /\ top[i][1] \in DOMAIN TMDB_GENRES
        /\ top[i][2] = TMDB_GENRES[top[i][1]]

\* C16: every genre name a classifier returns (static mapping, local
\* zero-shot, remote) is a key of the vocabulary paired with its id, and
\* every genre id passed to the catalog client is an id of the vocabulary;
\* the names of a remote answer that are not in the vocabulary are dropped.
C16_GenresAreInVocabulary ==
    \A r \in Requests :
        /\ InVocabulary(req[r].top)
        /\ \A i \in 1..Len(req[r].genre_ids) : req[r].genre_ids[i] \in VocabularyIds
        /\ req[r].dreq # None =>
               \A i \in 1..Len(req[r].dreq[1].with_genres) :
                   req[r].dreq[1].with_genres[i] \in VocabularyIds

C16_Witness ==
    \E r \in Requests :
        /\ settings.ai_mode = "remote"
        /\ ~req[r].remote_raised
        /\ req[r].top = << <<"Thriller", 53>> >>
        /\ req[r].dreq # None
        /\ req[r].dreq[1].with_genres = <<53>>

\* C17: the page/sort derivation is total: for every seed it yields a page
\* in 1..5 and one of the two sort criteria, vote_average.desc when the code
\* point of the seed's first character is even and popularity.desc otherwise.
C17_PickIsTotal ==
    call.fn = "pick" =>
        /\ call.out.page \in 1..5
        /\ ~call.out.sort.raised
        /\ call.out.sort.sort_by \in {"vote_average.desc", "popularity.desc"}
        /\ call.out.sort.sort_by = "vote_average.desc" <=> Ord[call.arg[1]] % 2 = 0

\* C18: an entry lives for the TTL (600 s) counted from its store: a call
\* returns from the cache only a list stored for its key less than the TTL
\* before, a hit does not extend the lifetime, and once every store for the
\* key is at least the TTL old the next call is a miss and recomputes.
C18_FixedTimeToLive ==
    [][\A r \in Requests :
          LET Fresh(key) == {x \in rets : x.key = key /\ now < x.stored + ttl}
          IN  /\ (req[r].pc = "Read" /\ req'[r].pc = "Return") =>
                     \E x \in Fresh(req[r].key) : x.items = req'[r].result
              /\ (req[r].pc = "idle" /\ req'[r].pc # "idle") =>
                     /\ req'[r].hit => Fresh(req'[r].key) # {}
                     /\ Fresh(req'[r].key) = {} => req'[r].pc = "ClassifyGenres"
      ]_vars

C18_Witness ==
    \E r \in Requests :
        /\ req[r].pc = "ClassifyGenres"
        /\ ~req[r].hit
        /\ HasKey(cache, req[r].key)
        /\ now = ttl
        /\ ncalls = 3
        /\ \E x \in rets : x.key = req[r].key /\ x.stored = 0
        /\ Cardinality(rets) = 1

KeysOf(c) == {c[i].key : i \in 1..Len(c)}

\* C19: the cache never holds more than its bound of entries, and a store
\* of a new key into a full cache without expired entries evicts the least
\* recently used entry and no other.
C19_BoundedLeastRecentlyUsed ==
    [][/\ Len(cache') <= maxsize
       /\ \A r \in Requests :
              (/\ req[r].pc = "Store" /\ req'[r].pc = "Return"
               /\ req[r].key \notin KeysOf(cache)
               /\ Len(cache) = maxsize
               /\ \A i \in 1..Len(cache) : now < cache[i].expires) =>
                  KeysOf(cache') = (KeysOf(cache) \ {Head(used)}) \cup {req[r].key}
      ]_vars

C19_Witness ==
    \E r \in Requests :
        /\ req[r].pc = "Return"
        /\ req[r].n_writes = 1
        /\ Len(cache) = maxsize
        /\ \E x, y \in rets :
              /\ x.key \notin KeysOf(cache)
              /\ y.key \in KeysOf(cache)
              /\ y.stored < x.stored
              /\ now < y.stored + ttl

\* C20: once a load of the zero-shot backend has failed, no later call of
\* is_available tries to load it again, and is_available stays false.
C20_ProbeIsMemoized ==
    /\ ~probe.again
    /\ probe.failed => ~zs

\* the smallest index of a non-empty set of indices
FirstOf(S) == CHOOSE i \in S : \A j \in S : i <= j

IsGemini(m) == StartsWith(m, <<"g", "e", "m", "i", "n", "i", "-">>)

IsFlash(m) == Contains(m, <<"f", "l", "a", "s", "h">>)

\* the substitute by tiers, the last tier being the available models with
\* the indices last: preference entry, else flash variant, else one of last
SubstituteByTiers(available, current, out, last) ==
    LET others == {available[i] : i \in 1..Len(available)} \ {current}
        prefs == {i \in 1..Len(preference) : preference[i] \in others}
        flashes == {i \in 1..Len(available) :
                       available[i] \in others /\ IsGemini(available[i]) /\ IsFlash(available[i])}
    IN  /\ out # Some(current)
        /\ IF prefs # {} THEN out = Some(preference[FirstOf(prefs)])
           ELSE IF flashes # {} THEN out = Some(available[FirstOf(flashes)])
           ELSE IF last # {} THEN out # None /\ \E i \in last : out[1] = available[i]
           ELSE out = None

\* C30 as stated: the substitute is the first entry of the preference list
\* that is available, else the first available flash variant, else any
\* available model; it is never the model that failed, and there is none
\* only when no other model is available.
C30_AnyOtherModel ==
    call.fn = "choose_fallback_model" =>
        LET a == call.arg.available
        IN  SubstituteByTiers(a, call.arg.model_name, call.out,
                {i \in 1..Len(a) : a[i] # call.arg.model_name})

\* C30 amended: the last resort is the first available model whose name
\* starts with "gemini-"; there is no substitute exactly when no other
\* available model has such a name.
C30_AnyOtherGeminiModel ==
    call.fn = "choose_fallback_model" =>
        LET a == call.arg.available
            geminis == {i \in 1..Len(a) : IsGemini(a[i]) /\ a[i] # call.arg.model_name}
        IN  /\ SubstituteByTiers(a, call.arg.model_name, call.out,
                   IF geminis = {} THEN {} ELSE {FirstOf(geminis)})
            /\ call.out = None <=> geminis = {}

C30_Witness ==
    /\ call.fn = "choose_fallback_model"
    /\ call.arg.available = << gemini_ultra, text_bison >>
    /\ call.arg.model_name = gemini_ultra
    /\ call.out = None

\* the names of a category of an entry, in upstream order
CategoryNames(entry, category) ==
    IF category \in DOMAIN entry THEN entry[category] ELSE <<>>

\* a region of the payload has data: an entry that is not empty
HasData(results, region) == region \in DOMAIN results /\ DOMAIN results[region] # {}

\* C28: get_watch_providers returns the names of the categories flatrate,
\* rent, buy, ads and free of one region's entry, in that category order
\* and in upstream order within a category, each name once at the place of
\* its first occurrence, cut to the first 8; the entry is the configured
\* region's, or that of "US" when the configured region has no data.
C28_ProvidersFlattened ==
    call.fn = "watch_providers_of" =>
        LET results == call.arg
            entry == IF HasData(results, tmdb_region) THEN results[tmdb_region]
                     ELSE IF HasData(results, "US") THEN results["US"]
                     ELSE <<>>
            flat == CategoryNames(entry, "flatrate") \o CategoryNames(entry, "rent")
                    \o CategoryNames(entry, "buy") \o CategoryNames(entry, "ads")
                    \o CategoryNames(entry, "free")
            names == {flat[i] : i \in 1..Len(flat)}
            FirstPos(n) == FirstOf({i \in 1..Len(flat) : flat[i] = n})
            out == call.out
            given == {out[i] : i \in 1..Len(out)}
        IN  /\ Len(out) = Min(8, Cardinality(names))
            /\ given \subseteq names
            /\ \A i, j \in 1..Len(out) : i < j => FirstPos(out[i]) < FirstPos(out[j])
            /\ \A n \in names \ given : \A i \in 1..Len(out) : FirstPos(out[i]) < FirstPos(n)

C28_Witness ==
    /\ call.fn = "watch_providers_of"
    /\ DOMAIN call.arg = {"BR", "US"}
    /\ ~HasData(call.arg, "BR")
    /\ call.out = <<"A", "B", "C", "D", "E", "F", "G", "H">>

\* rating / 10 clamped to [0, 1], in hundredths, for a rating in tenths
ClampedScore(vote_average) ==
    LET v == IF vote_average = None THEN 0 ELSE vote_average[1]
    IN  IF v < 0 THEN 0 ELSE IF v > 100 THEN 100 ELSE v

\* C29: discover_by_genres and search_by_mood return the hits of the first
\* 10 upstream results, in upstream order, each with score = rating / 10
\* clamped to [0, 1]; the items made from them, and the fallback item, have
\* a score within [0, 1].
C29_TenHitsClamped ==
    call.fn = "hits_of" =>
        LET results == call.arg
            rows == call.out.rows
        IN  /\ Len(rows) = Min(10, Len(results))
            /\ \A i \in 1..Len(rows) :
                   /\ rows[i].id = results[i].id
                   /\ rows[i].score = ClampedScore(results[i].vote_average)
                   /\ rows[i].score \in 0..100
            /\ Len(call.out.items) = Len(rows)
            /\ \A i \in 1..Len(rows) :
                   call.out.items[i].score = rows[i].score /\ call.out.items[i].score \in 0..100
            /\ call.out.fallback.score \in 0..100

C29_Witness ==
    /\ call.fn = "hits_of"
    /\ Len(call.arg) = MaxResults
    /\ Len(call.out.rows) = 10
    /\ call.arg[1].vote_average = Some(118)
    /\ call.out.rows[1].score = 100
    /\ call.out.rows[10].score = 10

\* C27: in remote mode without the credential the classifier raises before
\* it sends any request, the error reaches the handler of the outer try,
\* and the call returns the synthetic fallback.
C27_MissingCredentialReachesCatch ==
    \A r \in Requests :
        (settings.ai_mode = "remote" /\ ~settings.gemini_api_key /\ PastClassification(r)) =>
            /\ req[r].remote_raised
            /\ req[r].sent = <<>>
            /\ req[r].escaped
            /\ req[r].n_discover = 0
            /\ req[r].pc = "Return" => req[r].result = <<fallback_recommendation(req[r].mood)>>

\* C26: a call that misses the cache stores its final list under the
\* normalized key exactly once, as its last step before it returns, on the
\* synthetic-fallback path too, and returns the list it stored; a call that
\* hits stores nothing and returns a list an earlier call stored for the
\* key, a synthetic fallback included.
C26_StoredOnceBeforeReturn ==
    \A r \in Requests :
        LET q == req[r]
        IN  /\ (~q.hit /\ q.pc = "Return") =>
                   /\ q.n_writes = 1
                   /\ q.key = <<"r", "e", "c", "s", ":">> \o Strip(Lower(q.mood))
                   /\ q.result = q.items
                   /\ ValueOf(cache, q.key) = Some(q.result)
            /\ (~q.hit /\ q.pc \notin {"idle", "Return"}) => q.n_writes = 0
            /\ q.hit => q.n_writes = 0
            /\ (q.hit /\ q.pc = "Return") => \E p \in q.prev : p.items = q.result

C26_Witness ==
    \E r \in Requests :
        /\ req[r].hit
        /\ req[r].pc = "Return"
        /\ Len(req[r].result) = 1
        /\ req[r].result[1].source = "fallback"
        /\ \E x \in rets : x.key = req[r].key /\ x.items = req[r].result /\ x.mood # req[r].mood

\* the remote classification of request r ends in this step
RemoteAnswered(r) == req[r].pc = "AwaitRemote" /\ req'[r].pc # "AwaitRemote"

\* what the remote classification of request r did, whoever is addressed
\* first: one request, and after a 404 "not found" with a substitute
\* available one more, to the substitute, which becomes the active model
\* exactly when it answers with a status below 300
OneRetryToSubstitute(r) ==
    LET s == req'[r].sent
        a == req'[r].answers
        listed == req'[r].listed
        target == IF listed = None THEN None ELSE choose_fallback_model(listed[1], MODEL_NAME)
    IN  /\ Len(s) \in 1..2
        /\ Len(a) = Len(s)
        /\ s[1] = MODEL_NAME
        /\ listed # None <=> a[1] = "notfound"
        /\ Len(s) = 2 <=> (a[1] = "notfound" /\ target # None)
        /\ Len(s) = 2 => (s[2] = target[1] /\ s[2] # s[1])
        /\ MODEL_NAME' = IF Len(s) = 2 /\ a[2] = "ok" THEN s[2] ELSE MODEL_NAME

\* C21 as stated: after a 404 "not found" with a substitute available there
\* is exactly one further generation request, to the substitute; a
\* substitute that answers successfully becomes the active model, and every
\* later call addresses it in its first request.
C21_SubstituteForTheProcess ==
    [][\A r \in Requests :
          RemoteAnswered(r) =>
              /\ OneRetryToSubstitute(r)
              /\ \A i \in 1..Len(remote.adopted) : req'[r].sent[1] = remote.adopted[i]
      ]_vars

\* C21 amended: every later call addresses the active model in its first
\* request, which is the substitute adopted last: a later call whose first
\* request is answered 404 "not found" replaces it in the same way.
C21_SubstituteUntilReplaced ==
    [][\A r \in Requests :
          RemoteAnswered(r) =>
              /\ OneRetryToSubstitute(r)
              /\ remote.adopted # <<>> =>
                     req'[r].sent[1] = remote.adopted[Len(remote.adopted)]
              /\ remote'.adopted =
                     IF Len(req'[r].sent) = 2 /\ req'[r].answers[2] = "ok"
                     THEN Append(remote.adopted, req'[r].sent[2]) ELSE remote.adopted
      ]_vars

C21_Witness ==
    \E r \in Requests :
        /\ req[r].pc = "QueryCatalog"
        /\ remote.adopted = << gemini_20_flash >>
        /\ MODEL_NAME = gemini_20_flash
        /\ req[r].sent = << gemini_20_flash >>
        /\ req[r].answers = << "ok" >>
        /\ ncalls = 2

\* C22: with requests for different moods interleaved in remote mode, a
\* request waiting for the remote classifier addressed the model that is
\* still the active one; the active model changes only to a substitute that
\* has just answered successfully in place of the active model that
\* answered not found, such a substitute always becomes the active model,
\* and once a substitution has happened the active model is a model that
\* answered successfully.
C22_SubstituteNeitherLostNorCorrupted ==
    [][/\ \A r \in Requests :
              req'[r].pc = "AwaitRemote" => req'[r].sent = <<MODEL_NAME'>>
       /\ remote'.adopted # <<>> => MODEL_NAME' \in remote'.answered
       /\ MODEL_NAME' # MODEL_NAME =>
              \E r \in Requests :
                  /\ RemoteAnswered(r)
                  /\ req'[r].sent = <<MODEL_NAME, MODEL_NAME'>>
                  /\ req'[r].answers = <<"notfound", "ok">>
       /\ \A r \in Requests :
              (RemoteAnswered(r) /\ req'[r].answers = <<"notfound", "ok">>) =>
                  MODEL_NAME' = req'[r].sent[2]
      ]_vars

C22_Witness ==
    \E r, s \in Requests :
        /\ r # s
        /\ req[r].mood # req[s].mood
        /\ req[r].pc = "AwaitDiscover"
        /\ req[s].pc = "QueryCatalog"
        /\ ncalls = 2
        /\ remote.adopted = << gemini_20_flash >>
        /\ req[s].sent = << gemini_20_flash >>
        /\ req[s].answers = << "ok" >>
        /\ MODEL_NAME = gemini_20_flash

\* C23: requests for the same key that both miss the cache each do their
\* own upstream work and return the list they computed; the cache entry of
\* a key changes only when a request stores, and then to the list of the
\* request that stores: after both, it is the list stored last.
C23_LastWriterWins ==
    [][/\ \A r \in Requests :
              /\ (~req'[r].hit /\ req'[r].pc = "Return") =>
                     /\ req'[r].n_classify = 1
                     /\ req'[r].n_discover = 1
                     /\ req'[r].n_writes = 1
                     /\ req'[r].result = req'[r].items
              /\ (req[r].pc = "Store" /\ req'[r].pc = "Return") =>
                     /\ ValueOf(cache', req[r].key) = Some(req[r].items)
                     /\ req'[r].result = req[r].items
       /\ (\A r \in Requests : ~(req[r].pc = "Store" /\ req'[r].pc = "Return")) =>
              \A i \in 1..Len(cache) : ValueOf(cache', cache[i].key) = Some(cache[i].value)
      ]_vars

C23_Witness ==
    \E r \in Requests :
        /\ req[r].pc = "Return"
        /\ ~req[r].hit
        /\ ncalls = 2
        /\ \E x \in rets :
              /\ x.key = req[r].key
              /\ x.items # req[r].result
              /\ now < x.stored + ttl
              /\ ValueOf(cache, x.key) = Some(req[r].result)

\* C24: a request that waits for the answer to a network call (remote
\* classifier, discovery, search, providers) has left the event loop, so
\* that other requests can take steps.
C24_EveryNetworkCallSuspends ==
    \A r \in Requests :
        req[r].pc \in {"AwaitRemote", "AwaitDiscover", "AwaitSearch", "AwaitProviders"} =>
            running # r

\* the place of a position of recommend_by_mood in the chain Lookup,
\* ClassifyGenres, QueryCatalog, EnrichProviders, SyntheticFallback, Store,
\* Return; the retries of a catalog method stay in its place
StageOf(pc) ==
    IF pc \in {"idle"} THEN 0
    ELSE IF pc \in {"Read"} THEN 1
    ELSE IF pc \in {"ClassifyGenres", "AwaitRemote"} THEN 2
    ELSE IF pc \in {"QueryCatalog", "AwaitDiscover", "SleepDiscover",
                    "SearchCatalog", "AwaitSearch", "SleepSearch"} THEN 3
    ELSE IF pc \in {"EnrichProviders", "AwaitProviders", "SleepProviders"} THEN 4
    ELSE IF pc \in {"SyntheticFallback"} THEN 5
    ELSE IF pc \in {"Store"} THEN 6
    ELSE 7

\* within a call the stages never go back, and a call ends at the last one
StagesInOrder ==
    [][\A r \in Requests :
          /\ req'[r].pc # "idle" => StageOf(req[r].pc) <= StageOf(req'[r].pc)
          /\ (req[r].pc # "idle" /\ req'[r].pc = "idle") => StageOf(req[r].pc) = 7
      ]_vars

\* a call in progress ends: at Return, or with an exception to the caller
EveryCallEnds ==
    \A r \in Requests : \A n \in 1..MaxCalls :
        (req[r].pc # "idle" /\ ncalls = n) ~>
            (req[r].pc \in {"Return", "Raise"} /\ ncalls = n)

\* C25: when every upstream call is answered or fails, every call of
\* recommend_by_mood reaches Return, through the stages Lookup,
\* ClassifyGenres, QueryCatalog, EnrichProviders, SyntheticFallback and
\* Store in that order and without going back.
C25_EveryCallReachesReturn ==
    /\ StagesInOrder
    /\ \A r \in Requests : \A n \in 1..MaxCalls :
           (req[r].pc # "idle" /\ ncalls = n) ~> (req[r].pc = "Return" /\ ncalls = n)

\* C31: the genres resolved for a request depend only on the normalized
\* mood: two cold-cache calls in off mode whose moods have the same
\* lower-cased, trimmed form are cached under the same key and pass the same
\* genre ids to discover_by_genres.
C31_GenresDependOnNormalizedMood ==
    (call.fn = "off_genre_ids_twice" /\ NormEq(call.arg[1], call.arg[2])) =>
        /\ call.out[1].key = call.out[2].key
        /\ call.out[1].genre_ids = call.out[2].genre_ids

\* a list of catalog-derived items, and the list of the handler of line 67
IsCatalogList(items) ==
    /\ items # <<>>
    /\ \A i \in 1..Len(items) : items[i].source # "fallback"

IsSyntheticList(items) ==
    /\ Len(items) = 1
    /\ items[1].source = "fallback"

\* C32: under concurrent requests, once the cache entry of a key holds a
\* list of catalog-derived items, no step replaces it by a synthetic-fallback
\* list while it is unexpired and still in the cache.
C32_CatalogEntryNotDegraded ==
    [][\A i \in 1..Len(cache) :
          (now < cache[i].expires /\ IsCatalogList(cache[i].value)) =>
              \A v \in {ValueOf(cache', cache[i].key)} :
                  v # None => ~IsSyntheticList(v[1])
      ]_vars

====
